---- MODULE Spec2Model ----
(***************************************************************************)
(* A model of nftstorage/metaplex-auth: the NFTBundle builder (addNFT,     *)
(* addNFTFromFileSystem, makeRootBlock, asCAR) and the upload-token        *)
(* issuer (makeMetaplexUploadToken).                                       *)
(*                                                                         *)
(* JavaScript strings are sequences of UTF-16 code units.  A content       *)
(* address (CID) is modelled as an ideal, collision-free digest: the       *)
(* record [digest |-> block].  An async function is a sequence of actions, *)
(* one per stretch of code between two awaits.                             *)
(***************************************************************************)
EXTENDS Integers, Sequences, FiniteSets, TLC

VARIABLES MAX_ENTRIES, nfts, blockstore, calls, last, fin, finCount,
          auth, authError, issued, client, initialized, NFTStorage_auth,
          uploads, prep

vars == <<MAX_ENTRIES, nfts, blockstore, calls, last, fin, finCount,
          auth, authError, issued, client, initialized, NFTStorage_auth,
          uploads, prep>>

\* the static flag of NFTStorageMetaplexor and the static auth function of
\* NFTStorage
initVars == <<initialized, NFTStorage_auth>>

\* the call of prepareMetaplexNFT or loadNFTFromFilesystem that is followed
\* step by step
prepVars == <<prep>>

\* the client, the static flag of its class and the uploads in flight
uploadVars == <<client, initVars, uploads>>

\* what the bundle leaves alone
authVars == <<auth, authError, issued, uploadVars, prepVars>>

\* what the making of tokens leaves alone
bundleState ==
  <<MAX_ENTRIES, nfts, blockstore, calls, last, fin, finCount, prepVars>>

bundleVars == <<bundleState, uploadVars>>

(***************************************************************************)
(* Bounds of the model.                                                    *)
(***************************************************************************)
\* number of addNFT / addNFTFromFileSystem calls that may be in flight
MaxCalls == 2
\* values the tests give the static NFTBundle.MAX_ENTRIES (1..TestMaxEntries)
TestMaxEntries == 2
\* number of distinct (metadata, image) pairs a caller passes in
NumInputs == 2
\* number of makeRootBlock / asCAR calls in one behaviour
MaxFinalize == 1
\* number of secret keys callers hold
NumKeys == 2

(***************************************************************************)
(* Strings.                                                                *)
(***************************************************************************)
Rep(u, n) == [i \in 1..n |-> u]

\* "metadata"
S_metadata == <<109, 101, 116, 97, 100, 97, 116, 97>>
\* "assets"
S_assets == <<97, 115, 115, 101, 116, 115>>
\* "metadata.json"
S_metadata_json == <<109, 101, 116, 97, 100, 97, 116, 97, 46, 106, 115, 111, 110>>
\* "image.png"
S_image_png == <<105, 109, 97, 103, 101, 46, 112, 110, 103>>
\* ".json"
S_dot_json == <<46, 106, 115, 111, 110>>
\* "nfts/"
S_nfts_dir == <<110, 102, 116, 115, 47>>

IsHighSurrogate(u) == u >= 55296 /\ u <= 56319
IsLowSurrogate(u) == u >= 56320 /\ u <= 57343

\* the concatenation of the sequences pieces[lo], ..., pieces[hi]
RECURSIVE ConcatRange(_, _, _)
ConcatRange(pieces, lo, hi) ==
  IF lo > hi THEN <<>>
  ELSE IF lo = hi THEN pieces[lo]
  ELSE ConcatRange(pieces, lo, (lo + hi) \div 2)
         \o ConcatRange(pieces, ((lo + hi) \div 2) + 1, hi)

Concat(pieces) == ConcatRange(pieces, 1, Len(pieces))

\* the sum of numbers[lo], ..., numbers[hi]
RECURSIVE SumRange(_, _, _)
SumRange(numbers, lo, hi) ==
  IF lo > hi THEN 0
  ELSE IF lo = hi THEN numbers[lo]
  ELSE SumRange(numbers, lo, (lo + hi) \div 2)
         + SumRange(numbers, ((lo + hi) \div 2) + 1, hi)

\* the UTF-8 bytes TextEncoder gives for the code unit at i of s: a surrogate
\* pair is encoded at its first unit, a lone surrogate as U+FFFD
UTF8At(s, i) ==
  LET u == s[i]
  IN IF u < 128 THEN <<u>>
     ELSE IF u < 2048 THEN <<192 + (u \div 64), 128 + (u % 64)>>
     ELSE IF IsHighSurrogate(u) /\ i < Len(s) /\ IsLowSurrogate(s[i + 1])
       THEN LET cp == 65536 + (u - 55296) * 1024 + (s[i + 1] - 56320)
            IN <<240 + (cp \div 262144), 128 + ((cp \div 4096) % 64),
                 128 + ((cp \div 64) % 64), 128 + (cp % 64)>>
     ELSE IF IsLowSurrogate(u) /\ i > 1 /\ IsHighSurrogate(s[i - 1])
       THEN <<>>
     ELSE IF IsHighSurrogate(u) \/ IsLowSurrogate(u) THEN <<239, 191, 189>>
     ELSE <<224 + (u \div 4096), 128 + ((u \div 64) % 64), 128 + (u % 64)>>

\* new TextEncoder().encode(s)
TextEncoderEncode(s) == Concat([i \in 1..Len(s) |-> UTF8At(s, i)])

ByteLength(s) == Len(TextEncoderEncode(s))

\* the index of the last "/" of a path, 0 if it has none
LastSlash(p) ==
  LET at == {i \in 1..Len(p) : p[i] = 47}
  IN IF at = {} THEN 0 ELSE CHOOSE i \in at : \A j \in at : j <= i

EndsWith(s, ext) ==
  /\ Len(ext) <= Len(s)
  /\ SubSeq(s, Len(s) - Len(ext) + 1, Len(s)) = ext

\* path.basename(p, ext), for a path without trailing slashes
basename(p, ext) ==
  LET base == SubSeq(p, LastSlash(p) + 1, Len(p))
  IN IF p = ext THEN <<>>
     ELSE IF EndsWith(base, ext) /\ Len(base) > Len(ext)
       THEN SubSeq(base, 1, Len(base) - Len(ext))
     ELSE base

(***************************************************************************)
(* The static ceilings of NFTBundle.                                       *)
(***************************************************************************)
\* MAX_ENTRIES of the revision that had no ceiling on the id length
MAX_ENTRIES_BEFORE == 5000

\* the static initialiser of NFTBundle.MAX_ENTRIES
DEFAULT_MAX_ENTRIES == 2200

MAX_ID_LEN == 64

\* "each link in the root block takes a max of 114 bytes"
MAX_LINK_BYTES == 114

\* "must stay below 256 kib"
ROOT_BLOCK_LIMIT == 262144

(***************************************************************************)
(* Inputs.                                                                 *)
(***************************************************************************)
\* "a"
IdA == <<97>>
\* "toString"
IdToString == <<116, 111, 83, 116, 114, 105, 110, 103>>
\* MAX_ID_LEN / 2 times U+00E9: MAX_ID_LEN bytes in MAX_ID_LEN / 2 code units
IdAtLimit == Rep(233, MAX_ID_LEN \div 2)
\* one more U+00E9: MAX_ID_LEN + 2 bytes in fewer than MAX_ID_LEN code units
IdOverLimit == Rep(233, (MAX_ID_LEN \div 2) + 1)

Ids == {IdA, IdToString, IdAtLimit, IdOverLimit}

\* The names every plain object inherits from Object.prototype.
ObjectPrototypeKeys ==
  { <<99, 111, 110, 115, 116, 114, 117, 99, 116, 111, 114>>,
    <<95, 95, 100, 101, 102, 105, 110, 101, 71, 101, 116, 116, 101, 114, 95, 95>>,
    <<95, 95, 100, 101, 102, 105, 110, 101, 83, 101, 116, 116, 101, 114, 95, 95>>,
    <<104, 97, 115, 79, 119, 110, 80, 114, 111, 112, 101, 114, 116, 121>>,
    <<95, 95, 108, 111, 111, 107, 117, 112, 71, 101, 116, 116, 101, 114, 95, 95>>,
    <<95, 95, 108, 111, 111, 107, 117, 112, 83, 101, 116, 116, 101, 114, 95, 95>>,
    <<105, 115, 80, 114, 111, 116, 111, 116, 121, 112, 101, 79, 102>>,
    <<112, 114, 111, 112, 101, 114, 116, 121, 73, 115, 69, 110, 117, 109, 101, 114, 97, 98, 108, 101>>,
    <<116, 111, 83, 116, 114, 105, 110, 103>>,
    <<118, 97, 108, 117, 101, 79, 102>>,
    <<95, 95, 112, 114, 111, 116, 111, 95, 95>>,
    <<116, 111, 76, 111, 99, 97, 108, 101, 83, 116, 114, 105, 110, 103>> }

\* A caller's (metadata, image) pair: metadata 0 does not satisfy the JSON
\* schema and is passed with opts.validateSchema, the others are valid
\* (the tests' makeRandomNFT) and passed without.
Inputs == {[meta |-> m, validateSchema |-> (m = 0)] : m \in 0..NumInputs}

NoInput == [meta |-> 0, validateSchema |-> FALSE]

\* The metadata files on disk: path -> the (metadata, image) pair loaded from
\* it.  "nfts/a.json" and "nfts/<IdOverLimit>.json" exist, "nfts/gone.json"
\* does not.
PathA == S_nfts_dir \o IdA \o S_dot_json
PathGone == S_nfts_dir \o <<103, 111, 110, 101>> \o S_dot_json
PathOverLimit == S_nfts_dir \o IdOverLimit \o S_dot_json

Paths == {PathA, PathGone, PathOverLimit}

FileSystem ==
  [p \in {PathA, PathOverLimit} |->
     [meta |-> IF p = PathA THEN 1 ELSE NumInputs, validateSchema |-> FALSE]]

\* opts.id of addNFTFromFileSystem: not given (""), or given
OptIds == {<<>>, IdAtLimit}

(***************************************************************************)
(* Blocks, content addresses and the block store.                          *)
(***************************************************************************)
CID(block) == [digest |-> block]

NoData == [kind |-> "none", of |-> 0]

NoBlock == [type |-> "none", data |-> NoData, links |-> {}]

RawBlock(data) == [type |-> "raw", data |-> data, links |-> {}]

\* dagPb.createLink(name, size, cid).  Tsize, the byte length of the block
\* the link points to, is determined by that block and is left out.
createLink(name, cid) == [Name |-> name, Hash |-> cid]

\* dag-pb keeps the links of a node sorted by name: a set
makeDirectoryBlock(links) ==
  [type |-> "directory", data |-> NoData, links |-> links]

\* blockstore.put(cid, bytes)
Put(bs, cid, bytes) ==
  [c \in DOMAIN bs \cup {cid} |-> IF c = cid THEN bytes ELSE bs[c]]

RECURSIVE PutAll(_, _)
PutAll(bs, blocks) ==
  IF blocks = {} THEN bs
  ELSE LET b == CHOOSE x \in blocks : TRUE
       IN PutAll(Put(bs, CID(b), b), blocks \ {b})

\* NFTStorage.encodeDirectory(files, {blockstore}): one block per file and a
\* directory linking each file under its name; the root is the directory.
encodeDirectory(files) ==
  LET root == makeDirectoryBlock(
                {createLink(f.name, CID(RawBlock(f.data))) : f \in files})
  IN [cid |-> CID(root),
      blocks |-> {root} \cup {RawBlock(f.data) : f \in files}]

(***************************************************************************)
(* prepareMetaplexNFT, as far as the bundle sees it.                       *)
(***************************************************************************)
\* ensureValidMetadata throws
SchemaInvalid(input) == input.validateSchema /\ input.meta = 0

imageFile(input) ==
  [name |-> S_image_png, data |-> [kind |-> "image", of |-> input.meta]]

encodedAssets(input) == encodeDirectory({imageFile(input)})

\* the linked metadata, serialized with JSON.stringify
metadataFile(input) ==
  [name |-> S_metadata_json, data |-> [kind |-> "json", of |-> input.meta]]

encodedMetadata(input) == encodeDirectory({metadataFile(input)})

\* the PackagedNFT prepareMetaplexNFT returns
PackagedNFT(input) ==
  [metadata |-> input.meta,
   encodedMetadata |-> [cid |-> encodedMetadata(input).cid],
   encodedAssets |-> [cid |-> encodedAssets(input).cid]]

NoNFT == [metadata |-> 0,
          encodedMetadata |-> [cid |-> CID(NoBlock)],
          encodedAssets |-> [cid |-> CID(NoBlock)]]

\* every block prepareMetaplexNFT writes for one NFT
NFTBlocks(input) == encodedAssets(input).blocks \cup encodedMetadata(input).blocks

(***************************************************************************)
(* NFTBundle: the checks.                                                  *)
(***************************************************************************)
\* _enforceMaxEntries throws
enforceMaxEntries == Cardinality(DOMAIN nfts) >= MAX_ENTRIES

\* a variant of _enforceMaxIdLength that counts UTF-16 code units, not bytes
enforceMaxIdLengthInCodeUnits(id) == Len(id) > MAX_ID_LEN

\* _enforceMaxIdLength throws
enforceMaxIdLength(id) == ByteLength(id) > MAX_ID_LEN

\* the JavaScript `key in obj` of a plain object: own and inherited names
HasProperty(obj, key) == key \in DOMAIN obj \/ key \in ObjectPrototypeKeys

\* manifest(): a copy of the own enumerable properties
manifest == nfts

(***************************************************************************)
(* Upload tokens: AuthContext, makeMetaplexUploadToken and its encodings.  *)
(* Strings are sequences of UTF-16 code units, byte arrays are sequences   *)
(* of 0..255.                                                              *)
(***************************************************************************)
\* the value of an option that is not given
undefined == <<-1>>

\* "chain"
TagChain == <<99, 104, 97, 105, 110>>

\* "solanaCluster"
TagSolanaCluster == <<115, 111, 108, 97, 110, 97, 67, 108, 117, 115, 116,
  101, 114>>

\* "mintingAgent"
TagMintingAgent == <<109, 105, 110, 116, 105, 110, 103, 65, 103, 101, 110,
  116>>

\* "agentVersion"
TagMintingAgentVersion == <<97, 103, 101, 110, 116, 86, 101, 114, 115, 105,
  111, 110>>

\* a variant that falls back on "mainnet-beta"
DEFAULT_CLUSTER_MainnetBeta ==
  <<109, 97, 105, 110, 110, 101, 116, 45, 98, 101, 116, 97>>

\* "devnet"
DEFAULT_CLUSTER == <<100, 101, 118, 110, 101, 116>>

\* "solana"
S_solana == <<115, 111, 108, 97, 110, 97>>

\* "mainnet-beta"
S_mainnet_beta == <<109, 97, 105, 110, 110, 101, 116, 45, 98, 101, 116, 97>>

\* "localnet"
S_localnet == <<108, 111, 99, 97, 108, 110, 101, 116>>

\* "alg"
S_alg == <<97, 108, 103>>

\* "EdDSA"
S_EdDSA == <<69, 100, 68, 83, 65>>

\* "typ"
S_typ == <<116, 121, 112>>

\* "JWT"
S_JWT == <<74, 87, 84>>

\* "iss"
S_iss == <<105, 115, 115>>

\* "req"
S_req == <<114, 101, 113>>

\* "put"
S_put == <<112, 117, 116>>

\* "rootCID"
S_rootCID == <<114, 111, 111, 116, 67, 73, 68>>

\* "tags"
S_tags == <<116, 97, 103, 115>>

\* "did:key:"
S_did_key == <<100, 105, 100, 58, 107, 101, 121, 58>>

\* "metaplex-pl-dotstorage-auth:"
SigningDomainPrefix == <<109, 101, 116, 97, 112, 108, 101, 120, 45, 112,
  108, 45, 100, 111, 116, 115, 116, 111, 114, 97, 103, 101, 45, 97, 117,
  116, 104, 58>>

\* "ABCDEFGHIJKLMNOPQRSTUVWXYZabcdefghijklmnopqrstuvwxyz0123456789+/"
Base64Alphabet == <<65, 66, 67, 68, 69, 70, 71, 72, 73, 74, 75, 76, 77, 78,
  79, 80, 81, 82, 83, 84, 85, 86, 87, 88, 89, 90, 97, 98, 99, 100, 101, 102,
  103, 104, 105, 106, 107, 108, 109, 110, 111, 112, 113, 114, 115, 116, 117,
  118, 119, 120, 121, 122, 48, 49, 50, 51, 52, 53, 54, 55, 56, 57, 43, 47>>

\* "123456789ABCDEFGHJKLMNPQRSTUVWXYZabcdefghijkmnopqrstuvwxyz"
Base58btcAlphabet == <<49, 50, 51, 52, 53, 54, 55, 56, 57, 65, 66, 67, 68,
  69, 70, 71, 72, 74, 75, 76, 77, 78, 80, 81, 82, 83, 84, 85, 86, 87, 88,
  89, 90, 97, 98, 99, 100, 101, 102, 103, 104, 105, 106, 107, 109, 110, 111,
  112, 113, 114, 115, 116, 117, 118, 119, 120, 121, 122>>

\* "0123456789abcdef"
HexDigits == <<48, 49, 50, 51, 52, 53, 54, 55, 56, 57, 97, 98, 99, 100, 101,
  102>>

\* "m/a"
S_agent == <<109, 47, 97>>

\* "1.0"
S_version == <<49, 46, 48>>

\* "bafyA"
RootCIDA == <<98, 97, 102, 121, 65>>

\* "bafyB"
RootCIDB == <<98, 97, 102, 121, 66>>

(***************************************************************************)
(* JSON.stringify, for strings, booleans, arrays and objects.              *)
(***************************************************************************)
Str(s) == [t |-> "string", s |-> s]

Obj(members) == [t |-> "object", members |-> members]

Undef == [t |-> "undefined"]

Arr(items) == [t |-> "array", items |-> items]

Bool(b) == [t |-> "boolean", b |-> b]

\* an optional string as a value
OptStr(s) == IF s = undefined THEN Undef ELSE Str(s)

Hex4(u) ==
  <<HexDigits[((u \div 4096) % 16) + 1], HexDigits[((u \div 256) % 16) + 1],
    HexDigits[((u \div 16) % 16) + 1], HexDigits[(u % 16) + 1]>>

\* QuoteJSONString, for the code unit at i of s
QuoteJSONChar(s, i) ==
  LET u == s[i]
  IN IF u = 34 THEN <<92, 34>>
     ELSE IF u = 92 THEN <<92, 92>>
     ELSE IF u = 8 THEN <<92, 98>>
     ELSE IF u = 9 THEN <<92, 116>>
     ELSE IF u = 10 THEN <<92, 110>>
     ELSE IF u = 12 THEN <<92, 102>>
     ELSE IF u = 13 THEN <<92, 114>>
     ELSE IF u < 32 THEN <<92, 117>> \o Hex4(u)
     ELSE IF IsHighSurrogate(u) /\ i < Len(s) /\ IsLowSurrogate(s[i + 1])
       THEN <<u>>
     ELSE IF IsLowSurrogate(u) /\ i > 1 /\ IsHighSurrogate(s[i - 1])
       THEN <<u>>
     ELSE IF IsHighSurrogate(u) \/ IsLowSurrogate(u)
       THEN <<92, 117>> \o Hex4(u)
     ELSE <<u>>

QuoteJSONString(s) ==
  <<34>> \o Concat([i \in 1..Len(s) |-> QuoteJSONChar(s, i)]) \o <<34>>

RECURSIVE JSONStringify(_)
RECURSIVE JSONMembers(_, _, _)
\* the members of an object from i on; a member whose value is undefined is
\* left out
JSONMembers(members, i, first) ==
  IF i > Len(members) THEN <<>>
  ELSE IF members[i].value.t = "undefined"
    THEN JSONMembers(members, i + 1, first)
  ELSE (IF first THEN <<>> ELSE <<44>>)
         \o QuoteJSONString(members[i].key) \o <<58>>
         \o JSONStringify(members[i].value)
         \o JSONMembers(members, i + 1, FALSE)

\* the items of an array from i on; an item that is undefined is null
RECURSIVE JSONItems(_, _)
JSONItems(items, i) ==
  IF i > Len(items) THEN <<>>
  ELSE (IF i = 1 THEN <<>> ELSE <<44>>)
         \o (IF items[i].t = "undefined" THEN <<110, 117, 108, 108>>
             ELSE JSONStringify(items[i]))
         \o JSONItems(items, i + 1)

JSONStringify(v) ==
  IF v.t = "string" THEN QuoteJSONString(v.s)
  ELSE IF v.t = "boolean"
    THEN (IF v.b THEN <<116, 114, 117, 101>> ELSE <<102, 97, 108, 115, 101>>)
  ELSE IF v.t = "array" THEN <<91>> \o JSONItems(v.items, 1) \o <<93>>
  ELSE <<123>> \o JSONMembers(v.members, 1, TRUE) \o <<125>>

(***************************************************************************)
(* base64, base64url and base58btc.                                        *)
(***************************************************************************)
\* Buffer.from(bytes).toString('base64'): the character at i
Base64Char(bytes, i) ==
  LET g == (i - 1) \div 4
      k == (i - 1) % 4
      b(j) == IF 3 * g + j <= Len(bytes) THEN bytes[3 * g + j] ELSE 0
      n == b(1) * 65536 + b(2) * 256 + b(3)
      sextet == IF k = 0 THEN n \div 262144
                ELSE IF k = 1 THEN (n \div 4096) % 64
                ELSE IF k = 2 THEN (n \div 64) % 64
                ELSE n % 64
  IN Base64Alphabet[sextet + 1]

b64Encode(bytes) ==
  [i \in 1..(4 * ((Len(bytes) + 2) \div 3)) |->
     IF i > (4 * Len(bytes) + 2) \div 3 THEN 61 ELSE Base64Char(bytes, i)]

\* s.replace(/=/g, '').replace(/\+/g, '-').replace(/\//g, '_')
b64urlEncode(bytes) ==
  LET s == b64Encode(bytes)
      unpadded == SelectSeq(s, LAMBDA ch : ch # 61)
  IN [i \in 1..Len(unpadded) |->
        IF unpadded[i] = 43 THEN 45
        ELSE IF unpadded[i] = 47 THEN 95
        ELSE unpadded[i]]

objectToB64URL(o) == b64urlEncode(TextEncoderEncode(JSONStringify(o)))

\* bytes, a big-endian number, divided by 58: quotient and remainder
RECURSIVE DivideBy58(_, _, _, _)
DivideBy58(bytes, i, rem, quotient) ==
  IF i > Len(bytes) THEN [quotient |-> quotient, rem |-> rem]
  ELSE LET n == rem * 256 + bytes[i]
       IN DivideBy58(bytes, i + 1, n % 58,
                     IF quotient = <<>> /\ n \div 58 = 0 THEN <<>>
                     ELSE Append(quotient, n \div 58))

\* the base-58 digits of a number, most significant first
RECURSIVE Base58Digits(_)
Base58Digits(bytes) ==
  IF bytes = <<>> THEN <<>>
  ELSE LET d == DivideBy58(bytes, 1, 0, <<>>)
       IN Append(Base58Digits(d.quotient), d.rem)

RECURSIVE LeadingZeros(_, _)
LeadingZeros(bytes, i) ==
  IF i > Len(bytes) \/ bytes[i] # 0 THEN 0 ELSE 1 + LeadingZeros(bytes, i + 1)

\* base58btc.encode(bytes): the multibase prefix z, a 1 for every leading
\* zero byte, the base-58 digits of the rest
base58btcEncode(bytes) ==
  LET zeros == LeadingZeros(bytes, 1)
      digits == Base58Digits(SubSeq(bytes, zeros + 1, Len(bytes)))
  IN <<122>> \o [i \in 1..zeros |-> Base58btcAlphabet[1]]
            \o [i \in 1..Len(digits) |-> Base58btcAlphabet[digits[i] + 1]]

\* a variant that keeps only the low byte of the varint
MulticodecEd25519PubkeyOneByte == <<237>>

\* varint.encode(0xed)
MulticodecEd25519Pubkey == <<237, 1>>

keyDID(pubkey) == S_did_key \o base58btcEncode(MulticodecEd25519Pubkey \o pubkey)

(***************************************************************************)
(* tweetnacl.  An Ed25519 signature is taken as a function of the public   *)
(* key and of every byte of the message, at its place.                     *)
(***************************************************************************)
Ed25519Signature(publicKey, message) ==
  LET a == SumRange(message, 1, Len(message)) % 65521
      b == SumRange([i \in 1..Len(message) |-> i * message[i]], 1,
                    Len(message)) % 65521
  IN [i \in 1..64 |->
        IF i <= 32 THEN (publicKey[i] + a + i * b) % 256
        ELSE (3 * publicKey[i - 32] + b + i * a + Len(message)) % 256]

\* nacl.sign.keyPair.fromSecretKey: the public key is the second half
naclKeyPairFromSecretKey(privkey) ==
  [publicKey |-> SubSeq(privkey, 33, 64), secretKey |-> privkey]

\* nacl.sign.detached(message, secretKey)
naclSignDetached(message, secretKey) ==
  Ed25519Signature(SubSeq(secretKey, 33, 64), message)

\* nacl.sign.detached.verify(message, sig, publicKey)
naclVerifyDetached(message, sig, publicKey) ==
  sig = Ed25519Signature(publicKey, message)

(***************************************************************************)
(* AuthContext.                                                            *)
(***************************************************************************)
\* !s of an optional string
Falsy(s) == s = undefined \/ s = <<>>

NoAuth ==
  [chain |-> <<>>, solanaCluster |-> <<>>, mintingAgent |-> <<>>,
   agentVersion |-> undefined, signMessage |-> [secretKey |-> <<>>],
   publicKey |-> <<>>]

\* a variant that throws only when mintingAgent is undefined
MetaplexAuthWithSignerUnlessUndefined(signMessage, publicKey, opts) ==
  IF opts.mintingAgent = undefined
    THEN [error |-> "mintingAgent", value |-> NoAuth]
    ELSE [error |-> "none",
          value |-> [chain |-> S_solana,
                     solanaCluster |-> IF Falsy(opts.solanaCluster)
                                         THEN DEFAULT_CLUSTER
                                         ELSE opts.solanaCluster,
                     mintingAgent |-> opts.mintingAgent,
                     agentVersion |-> opts.agentVersion,
                     signMessage |-> signMessage,
                     publicKey |-> publicKey]]

\* the AuthContext returned, or the error thrown
MetaplexAuthWithSigner(signMessage, publicKey, opts) ==
  IF Falsy(opts.mintingAgent)
    THEN [error |-> "mintingAgent", value |-> NoAuth]
    ELSE [error |-> "none",
          value |-> [chain |-> S_solana,
                     solanaCluster |-> IF Falsy(opts.solanaCluster)
                                         THEN DEFAULT_CLUSTER
                                         ELSE opts.solanaCluster,
                     mintingAgent |-> opts.mintingAgent,
                     agentVersion |-> opts.agentVersion,
                     signMessage |-> signMessage,
                     publicKey |-> publicKey]]

\* signMessage is a closure over the secret key
MetaplexAuthWithSecretKey(privkey, opts) ==
  LET pair == naclKeyPairFromSecretKey(privkey)
  IN MetaplexAuthWithSigner([secretKey |-> pair.secretKey], pair.publicKey,
                            opts)

\* auth.signMessage(message)
signMessage(signer, message) == naclSignDetached(message, signer.secretKey)

\* a variant that always writes the agentVersion tag, empty when the
\* AuthContext has none
TokenPayloadWithVersionAlways(ctx, rootCID) ==
  LET tags == Obj(<<[key |-> TagChain, value |-> Str(ctx.chain)],
                    [key |-> TagSolanaCluster,
                     value |-> Str(ctx.solanaCluster)],
                    [key |-> TagMintingAgent, value |-> Str(ctx.mintingAgent)],
                    [key |-> TagMintingAgentVersion,
                     value |-> Str(IF ctx.agentVersion = undefined THEN <<>>
                                   ELSE ctx.agentVersion)]>>)
      req == Obj(<<[key |-> S_put,
                    value |-> Obj(<<[key |-> S_rootCID, value |-> Str(rootCID)],
                                    [key |-> S_tags, value |-> tags]>>)]>>)
  IN Obj(<<[key |-> S_iss, value |-> Str(keyDID(ctx.publicKey))],
           [key |-> S_req, value |-> req]>>)

\* the payload of the token
TokenPayload(ctx, rootCID) ==
  LET tags == Obj(<<[key |-> TagChain, value |-> Str(ctx.chain)],
                    [key |-> TagSolanaCluster,
                     value |-> Str(ctx.solanaCluster)],
                    [key |-> TagMintingAgent, value |-> Str(ctx.mintingAgent)],
                    [key |-> TagMintingAgentVersion,
                     value |-> OptStr(ctx.agentVersion)]>>)
      req == Obj(<<[key |-> S_put,
                    value |-> Obj(<<[key |-> S_rootCID, value |-> Str(rootCID)],
                                    [key |-> S_tags, value |-> tags]>>)]>>)
  IN Obj(<<[key |-> S_iss, value |-> Str(keyDID(ctx.publicKey))],
           [key |-> S_req, value |-> req]>>)

\* a variant whose header names no type
TokenHeaderWithoutTyp ==
  Obj(<<[key |-> S_alg, value |-> Str(S_EdDSA)]>>)

TokenHeader ==
  Obj(<<[key |-> S_alg, value |-> Str(S_EdDSA)],
        [key |-> S_typ, value |-> Str(S_JWT)]>>)

\* a variant that signs as makePutCarRequestContext did: the message after
\* the signing domain prefix
makeMetaplexUploadTokenWithDomainPrefix(ctx, rootCID) ==
  LET headerB64 == objectToB64URL(TokenHeader)
      payloadB64 == objectToB64URL(TokenPayload(ctx, rootCID))
      encoded == headerB64 \o <<46>> \o payloadB64
      encodedBytes == TextEncoderEncode(SigningDomainPrefix \o encoded)
      sig == signMessage(ctx.signMessage, encodedBytes)
      sigB64 == b64urlEncode(sig)
  IN encoded \o <<46>> \o sigB64

makeMetaplexUploadToken(ctx, rootCID) ==
  LET headerB64 == objectToB64URL(TokenHeader)
      payloadB64 == objectToB64URL(TokenPayload(ctx, rootCID))
      encoded == headerB64 \o <<46>> \o payloadB64
      encodedBytes == TextEncoderEncode(encoded)
      sig == signMessage(ctx.signMessage, encodedBytes)
      sigB64 == b64urlEncode(sig)
  IN encoded \o <<46>> \o sigB64

NoToken == [auth |-> NoAuth, rootCID |-> <<>>, token |-> <<>>]

\* the secret keys, the options and the root addresses that callers give
PrivKey(n) == [i \in 1..64 |-> (n * 37 + i * 11) % 256]

PrivKeys == {PrivKey(n) : n \in 1..NumKeys}

AuthOpts ==
  [mintingAgent : {undefined, <<>>, S_agent},
   agentVersion : {undefined, S_version},
   solanaCluster : {undefined, <<>>, S_mainnet_beta, S_localnet}]

\* the public keys that callers give with a signer
PublicKeys == {naclKeyPairFromSecretKey(k).publicKey : k \in PrivKeys}

RootCIDs == {RootCIDA, RootCIDB}

(***************************************************************************)
(* NFTStorageMetaplexor: the client, the archives and the uploads.         *)
(***************************************************************************)
MaxUploads == 1

MaxChunks == 2

\* "https://api.nft.storage"
DEFAULT_ENDPOINT == <<104, 116, 116, 112, 115, 58, 47, 47, 97, 112, 105, 46,
  110, 102, 116, 46, 115, 116, 111, 114, 97, 103, 101>>

\* "http://localhost:8080"
S_localhost == <<104, 116, 116, 112, 58, 47, 47, 108, 111, 99, 97, 108, 104,
  111, 115, 116, 58, 56, 48, 56, 48>>

\* "/metaplex/"
S_metaplex_path == <<47, 109, 101, 116, 97, 112, 108, 101, 120, 47>>

\* "upload/"
S_upload_path == <<117, 112, 108, 111, 97, 100, 47>>

\* "x-web3auth", "Metaplex ", "Authorization", "Bearer "
S_x_web3auth == <<120, 45, 119, 101, 98, 51, 97, 117, 116, 104>>

S_Metaplex == <<77, 101, 116, 97, 112, 108, 101, 120, 32>>

S_Authorization == <<65, 117, 116, 104, 111, 114, 105, 122, 97, 116, 105, 111,
  110>>

S_Bearer == <<66, 101, 97, 114, 101, 114, 32>>

\* "abcdefghijklmnopqrstuvwxyz234567"
Base32Alphabet == <<97, 98, 99, 100, 101, 102, 103, 104, 105, 106, 107, 108,
  109, 110, 111, 112, 113, 114, 115, 116, 117, 118, 119, 120, 121, 122, 50,
  51, 52, 53, 54, 55>>

\* base32.encode(bytes), without its multibase prefix and without padding
base32Encode(bytes) ==
  [j \in 1..((8 * Len(bytes) + 4) \div 5) |->
     LET bit == 5 * (j - 1)
         k == bit \div 8 + 1
         w == bytes[k] * 256 + (IF k < Len(bytes) THEN bytes[k + 1] ELSE 0)
     IN Base32Alphabet[((w \div 2 ^ (11 - (bit % 8))) % 32) + 1]]

\* a CIDv1 of dag-pb with a sha2-256 digest, and cid.toString()
CarCid(n) ==
  [version |-> 1, code |-> 112,
   multihash |-> <<18, 32>> \o [i \in 1..32 |-> (n * 53 + i * 7) % 256]]

CIDToString(cid) ==
  <<98>> \o base32Encode(<<cid.version, cid.code>> \o cid.multihash)

NoCid == [version |-> 0, code |-> 0, multihash |-> <<>>]

\* the archives of a PackagedNFT, by their roots
PreparedNFT ==
  [encodedMetadata |-> [cid |-> CarCid(1)], encodedAssets |-> [cid |-> CarCid(2)]]

NoPreparedNFT ==
  [encodedMetadata |-> [cid |-> NoCid], encodedAssets |-> [cid |-> NoCid]]

CarCids == {PreparedNFT.encodedMetadata.cid, PreparedNFT.encodedAssets.cid}

\* new NFTStorageMetaplexor({ auth, endpoint })
NFTStorageMetaplexor(context) ==
  [auth |-> context.auth,
   endpoint |-> IF Falsy(context.endpoint) THEN DEFAULT_ENDPOINT
                ELSE context.endpoint]

NoClient == [auth |-> NoAuth, endpoint |-> <<>>]

\* new URL('/metaplex/', baseEndpoint), of a base without a path
MetaplexEndpoint(baseEndpoint) == baseEndpoint \o S_metaplex_path

\* NFTStorage.auth(token), as the library has it and as init() sets it
NFTStorageAuth(overridden, token) ==
  IF overridden THEN [name |-> S_x_web3auth, value |-> S_Metaplex \o token]
  ELSE [name |-> S_Authorization, value |-> S_Bearer \o token]

\* the options that callers give to withSecretKey and withSigner
ClientOpts ==
  [mintingAgent : {undefined, <<>>, S_agent}, agentVersion : {undefined},
   solanaCluster : {undefined}, endpoint : {undefined, S_localhost}]

\* the key of the callers with a secret key, and the signer with a key of
\* its own that callers give with that public key
ClientKey == PrivKey(1)

SignerKey == PrivKey(2)

Uploads == 1..MaxUploads

NoService == [endpoint |-> <<>>, token |-> <<>>]

\* a call of storeCar or of storePreparedNFT: where it is, the archive (car)
\* it is at and its root, the calls of the signer, the tokens made, the
\* requests sent and the roots returned so far
IdleUpload ==
  [op |-> "none", pc |-> "idle", context |-> NoClient, nft |-> NoPreparedNFT,
   car |-> 0, cid |-> NoCid, signs |-> 0, tokens |-> <<>>, service |-> NoService,
   sent |-> 0, requests |-> {}, results |-> <<>>, signerError |-> "none",
   error |-> "none"]

\* the errors that the signer of a caller rejects with
SignerErrors == {"rejected by wallet", "wallet locked"}

(***************************************************************************)
(* The calls in flight.                                                    *)
(***************************************************************************)
Calls == 1..MaxCalls

IdleCall ==
  [pc |-> "idle", id |-> <<>>, path |-> <<>>, input |-> NoInput,
   nft |-> NoNFT, wrote |-> {}, alone |-> TRUE]

InFlight(c) == calls[c].pc # "idle"

\* a new call takes the first slot that holds no call
FreeSlot(c) == ~InFlight(c) /\ \A k \in Calls : k < c => InFlight(k)

\* a call starts with no other call in flight, and has written no block yet
NewCall(id, path, input) ==
  [pc |-> "idle", id |-> id, path |-> path, input |-> input,
   nft |-> NoNFT, wrote |-> {}, alone |-> \A k \in Calls : ~InFlight(k)]

\* slot c takes rec; the calls in flight are no longer alone
Begin(c, rec) ==
  calls' = [k \in Calls |->
              IF k = c THEN rec
              ELSE IF InFlight(k) THEN [calls[k] EXCEPT !.alone = FALSE]
              ELSE calls[k]]

\* the call of slot c settles: its promise resolves (error = "none") or
\* rejects with error; last keeps how the last settled call ended
Settle(c, rec, error) ==
  /\ calls' = [k \in Calls |->
                 IF k = c THEN IdleCall
                 ELSE IF InFlight(k) THEN [calls[k] EXCEPT !.alone = FALSE]
                 ELSE calls[k]]
  /\ last' = [id |-> rec.id, error |-> error, wrote |-> rec.wrote]

NoLast == [id |-> <<>>, error |-> "no call", wrote |-> {}]

NoCar == [version |-> 0, roots |-> <<>>]

IdleFin ==
  [pc |-> "idle", op |-> "none", entries |-> <<>>, todo |-> {},
   links |-> {}, rootBlock |-> NoBlock, car |-> NoCar, cid |-> CID(NoBlock)]

\* new File([data], name)
File(name, data) == [name |-> name, data |-> [kind |-> "bytes", of |-> data]]

\* the two block stores of a call of prepareMetaplexNFT: the one of the
\* caller, given in opts or not, and the one that `new Blockstore()` makes
Blockstores == {"opts.blockstore", "new Blockstore()"}

\* the block that the store of the caller holds before the call
EarlierBlock == RawBlock([kind |-> "bytes", of |-> <<0>>])

NoEncoded == [cid |-> CID(NoBlock), blocks |-> {}]

\* the PackagedNFT that prepareMetaplexNFT returns, its archives by their
\* roots and its block store by its name
NoPackagedNFT ==
  [metadata |-> Undef, encodedMetadata |-> [cid |-> CID(NoBlock)],
   encodedAssets |-> [cid |-> CID(NoBlock)], metadataGatewayURL |-> <<>>,
   metadataURI |-> <<>>, blockstore |-> "none"]

NoPrepareOpts ==
  [additionalAssetFiles |-> <<>>, blockstore |-> "undefined",
   validateSchema |-> FALSE, gatewayHost |-> undefined]

\* a call of prepareMetaplexNFT: where it is, its arguments, the store it
\* writes to and every store's blocks, and what it has made so far
IdlePrep ==
  [op |-> "none", pc |-> "idle", metadata |-> Undef,
   imageFile |-> File(<<>>, <<>>), opts |-> NoPrepareOpts,
   args |-> [metadataFilePath |-> <<>>, imageFilePath |-> undefined],
   blockstore |-> "new Blockstore()",
   blocks |-> [s \in Blockstores |-> <<>>],
   encodedAssets |-> NoEncoded, linkedMetadata |-> Undef,
   encodedMetadata |-> NoEncoded, result |-> NoPackagedNFT,
   error |-> "none"]

\* a new bundle; the static MAX_ENTRIES is its default, or what a test set
Fresh ==
  /\ nfts = <<>>
  /\ blockstore = <<>>
  /\ calls = [c \in Calls |-> IdleCall]
  /\ last = NoLast
  /\ fin = IdleFin
  /\ finCount = 0
  /\ auth = NoAuth
  /\ authError = "none"
  /\ issued = NoToken
  /\ client = NoClient
  /\ initialized = FALSE
  /\ NFTStorage_auth = [overridden |-> FALSE, installs |-> 0]
  /\ uploads = [u \in Uploads |-> IdleUpload]
  /\ prep = IdlePrep

Init == Fresh /\ MAX_ENTRIES \in 1..TestMaxEntries

InitDefault == Fresh /\ MAX_ENTRIES = DEFAULT_MAX_ENTRIES

(***************************************************************************)
(* addNFT and addNFTFromFileSystem.                                        *)
(***************************************************************************)
\* a variant of addNFT that looks for the id among the entries before packaging
addNFTDuplicateFirst(c, id, input) ==
  /\ FreeSlot(c)
  /\ LET rec == NewCall(id, <<>>, input)
     IN IF enforceMaxEntries THEN Settle(c, rec, "capacity")
        ELSE IF enforceMaxIdLength(id) THEN Settle(c, rec, "length")
        ELSE IF HasProperty(nfts, id) THEN Settle(c, rec, "duplicate")
        ELSE IF SchemaInvalid(input) THEN Settle(c, rec, "invalid")
        ELSE Begin(c, [rec EXCEPT !.pc = "prepare"]) /\ last' = last
  /\ UNCHANGED <<authVars, MAX_ENTRIES, nfts, blockstore, fin, finCount>>

\* addNFT up to its await on prepareMetaplexNFT
addNFT(c, id, input) ==
  /\ FreeSlot(c)
  /\ LET rec == NewCall(id, <<>>, input)
     IN IF enforceMaxEntries THEN Settle(c, rec, "capacity")
        ELSE IF enforceMaxIdLength(id) THEN Settle(c, rec, "length")
        ELSE IF SchemaInvalid(input) THEN Settle(c, rec, "invalid")
        ELSE Begin(c, [rec EXCEPT !.pc = "prepare"]) /\ last' = last
  /\ UNCHANGED <<authVars, MAX_ENTRIES, nfts, blockstore, fin, finCount>>

\* addNFTFromFileSystem up to its await on loadNFTFromFilesystem
addNFTFromFileSystem(c, metadataFilePath, optsId) ==
  /\ FreeSlot(c)
  /\ LET id == IF optsId = <<>> THEN basename(metadataFilePath, S_dot_json)
               ELSE optsId
         rec == NewCall(id, metadataFilePath, NoInput)
     IN IF enforceMaxEntries THEN Settle(c, rec, "capacity")
        ELSE IF enforceMaxIdLength(id) THEN Settle(c, rec, "length")
        ELSE Begin(c, [rec EXCEPT !.pc = "load"]) /\ last' = last
  /\ UNCHANGED <<authVars, MAX_ENTRIES, nfts, blockstore, fin, finCount>>

\* loadNFTFromFilesystem up to its call of prepareMetaplexNFT
loadNFTFromFilesystem(c) ==
  /\ calls[c].pc = "load"
  /\ IF calls[c].path \in DOMAIN FileSystem
       THEN /\ calls' = [calls EXCEPT ![c].pc = "prepare",
                                      ![c].input = FileSystem[calls[c].path]]
            /\ last' = last
       ELSE Settle(c, calls[c], "io")
  /\ UNCHANGED <<authVars, MAX_ENTRIES, nfts, blockstore, fin, finCount>>

\* prepareMetaplexNFT: the asset files, then the linked metadata, are encoded
\* into the block store.  It awaits twice; no other operation reads the blocks
\* of an NFT before it is an entry of the bundle, so the stretches are taken
\* as one step.
prepareMetaplexNFT(c) ==
  /\ calls[c].pc = "prepare"
  /\ LET input == calls[c].input
         blocks == encodedAssets(input).blocks \cup encodedMetadata(input).blocks
     IN /\ blockstore' = PutAll(blockstore, blocks)
        /\ calls' = [calls EXCEPT ![c].pc = "insert",
                                  ![c].nft = PackagedNFT(input),
                                  ![c].wrote = @ \cup blocks]
  /\ UNCHANGED <<authVars, MAX_ENTRIES, nfts, last, fin, finCount>>

\* after the await: _addManifestEntry(id, nft) and the return
addManifestEntry(c) ==
  /\ calls[c].pc = "insert"
  /\ IF HasProperty(nfts, calls[c].id)
       THEN /\ Settle(c, calls[c], "duplicate")
            /\ nfts' = nfts
       ELSE /\ Settle(c, calls[c], "none")
            /\ nfts' = [k \in DOMAIN nfts \cup {calls[c].id} |->
                          IF k = calls[c].id THEN calls[c].nft ELSE nfts[k]]
  /\ UNCHANGED <<authVars, MAX_ENTRIES, blockstore, fin, finCount>>

(***************************************************************************)
(* makeRootBlock and asCAR.                                                *)
(***************************************************************************)
\* wrapperDirForNFT(nft); NoBlock when a root block is missing from the store
wrapperDirForNFT(nft, bs) ==
  IF nft.encodedMetadata.cid \notin DOMAIN bs
     \/ nft.encodedAssets.cid \notin DOMAIN bs
    THEN NoBlock
    ELSE makeDirectoryBlock(
           {createLink(S_assets, nft.encodedAssets.cid),
            createLink(S_metadata, nft.encodedMetadata.cid)})

\* makeRootBlock (op = "makeRootBlock") or asCAR (op = "asCAR") is called:
\* Object.entries(this._nfts) is taken once, when the loop starts
makeRootBlockBegin(op) ==
  /\ fin.pc \in {"idle", "returned", "failed"}
  /\ finCount < MaxFinalize
  /\ fin' = [IdleFin EXCEPT !.pc = "wrap", !.op = op, !.entries = nfts,
                            !.todo = DOMAIN nfts]
  /\ finCount' = finCount + 1
  /\ UNCHANGED <<authVars, MAX_ENTRIES, nfts, blockstore, calls, last>>

\* a variant of the loop's turn that does not put the wrapper directory
makeRootBlockWrapWithoutPut ==
  /\ fin.pc = "wrap"
  /\ fin.todo # {}
  /\ LET id == CHOOSE k \in fin.todo : TRUE
         dir == wrapperDirForNFT(fin.entries[id], blockstore)
     IN IF dir = NoBlock
          THEN fin' = [fin EXCEPT !.pc = "failed"]
          ELSE fin' = [fin EXCEPT !.todo = @ \ {id},
                                  !.links = @ \cup {createLink(id, CID(dir))}]
  /\ UNCHANGED <<authVars, MAX_ENTRIES, nfts, blockstore, calls, last, finCount>>

\* one turn of the loop: the wrapper directory of the next entry is built, put
\* into the block store and linked under the entry's id
makeRootBlockWrap ==
  /\ fin.pc = "wrap"
  /\ fin.todo # {}
  /\ LET id == CHOOSE k \in fin.todo : TRUE
         dir == wrapperDirForNFT(fin.entries[id], blockstore)
     IN IF dir = NoBlock
          THEN /\ fin' = [fin EXCEPT !.pc = "failed"]
               /\ blockstore' = blockstore
          ELSE /\ blockstore' = Put(blockstore, CID(dir), dir)
               /\ fin' = [fin EXCEPT !.todo = @ \ {id},
                                     !.links = @ \cup {createLink(id, CID(dir))}]
  /\ UNCHANGED <<authVars, MAX_ENTRIES, nfts, calls, last, finCount>>

\* the loop is over: makeRootBlock returns makeDirectoryBlock(links)
makeRootBlockReturn ==
  /\ fin.pc = "wrap"
  /\ fin.todo = {}
  /\ LET rootBlock == makeDirectoryBlock(fin.links)
     IN fin' = [fin EXCEPT !.rootBlock = rootBlock,
                           !.cid = CID(rootBlock),
                           !.pc = IF fin.op = "asCAR" THEN "put" ELSE "returned"]
  /\ UNCHANGED <<authVars, MAX_ENTRIES, nfts, blockstore, calls, last, finCount>>

\* new BlockstoreCarReader(version, roots, blockstore): an archive that reads
\* through to the block store
BlockstoreCarReader(version, roots) == [version |-> version, roots |-> roots]

CarHas(car, cid) == cid \in DOMAIN blockstore

\* a variant of asCAR that returns the archive without putting the root block
asCARWithoutPut ==
  /\ fin.pc = "put"
  /\ fin' = [fin EXCEPT !.pc = "returned",
                        !.car = BlockstoreCarReader(1, <<fin.cid>>)]
  /\ UNCHANGED <<authVars, MAX_ENTRIES, nfts, blockstore, calls, last, finCount>>

\* asCAR after makeRootBlock: the root block is put, the archive returned
asCAR ==
  /\ fin.pc = "put"
  /\ blockstore' = Put(blockstore, fin.cid, fin.rootBlock)
  /\ fin' = [fin EXCEPT !.pc = "returned",
                        !.car = BlockstoreCarReader(1, <<fin.cid>>)]
  /\ UNCHANGED <<authVars, MAX_ENTRIES, nfts, calls, last, finCount>>

(***************************************************************************)
(* The making of AuthContexts and tokens.                                  *)
(***************************************************************************)
\* auth = MetaplexAuthWithSecretKey(privkey, opts); when it throws, auth is
\* left as it was
NewAuthWithSecretKey(privkey, opts) ==
  /\ LET r == MetaplexAuthWithSecretKey(privkey, opts)
     IN /\ authError' = r.error
        /\ auth' = IF r.error = "none" THEN r.value ELSE auth
  /\ UNCHANGED <<issued, bundleVars>>

\* await makeMetaplexUploadToken(auth, rootCID)
IssueToken(rootCID) ==
  /\ auth # NoAuth
  /\ issued' = [auth |-> auth, rootCID |-> rootCID,
                token |-> makeMetaplexUploadToken(auth, rootCID)]
  /\ UNCHANGED <<auth, authError, bundleVars>>

NextToken ==
  \/ \E privkey \in PrivKeys, opts \in AuthOpts :
       NewAuthWithSecretKey(privkey, opts)
  \/ \E rootCID \in RootCIDs : IssueToken(rootCID)

TokenSpec == InitDefault /\ [][NextToken]_vars

\* MetaplexAuthWithSigner(signMessage, publicKey, opts), of a caller: the
\* signer signs with a key of its own, the public key is the one given
NewAuthWithSigner(signerKey, publicKey, opts) ==
  /\ LET r == MetaplexAuthWithSigner([secretKey |-> signerKey], publicKey,
                                     opts)
     IN /\ authError' = r.error
        /\ auth' = IF r.error = "none" THEN r.value ELSE auth
  /\ UNCHANGED <<issued, bundleVars>>

NextAuth ==
  \/ \E signerKey \in PrivKeys, publicKey \in PublicKeys, opts \in AuthOpts :
       NewAuthWithSigner(signerKey, publicKey, opts)
  \/ \E privkey \in PrivKeys, opts \in AuthOpts :
       NewAuthWithSecretKey(privkey, opts)
  \/ \E rootCID \in RootCIDs : IssueToken(rootCID)

AuthSpec == InitDefault /\ [][NextAuth]_vars

(***************************************************************************)
(* NFTStorageMetaplexor: withSecretKey, withSigner, storeCar and           *)
(* storePreparedNFT.  The static methods take the context of the caller:   *)
(* a client, or an AuthContext with no endpoint.                           *)
(***************************************************************************)
AuthOptsOf(opts) ==
  [mintingAgent |-> opts.mintingAgent, agentVersion |-> opts.agentVersion,
   solanaCluster |-> opts.solanaCluster]

\* the client that a constructor returns, or the error it throws
NewClient(r, opts) ==
  /\ authError' = r.error
  /\ client' = IF r.error = "none"
                 THEN NFTStorageMetaplexor([auth |-> r.value,
                                            endpoint |-> opts.endpoint])
                 ELSE client
  /\ UNCHANGED <<auth, issued, initVars, uploads, bundleState>>

withSecretKey(key, opts) ==
  NewClient(MetaplexAuthWithSecretKey(key, AuthOptsOf(opts)), opts)

withSigner(signerKey, publicKey, opts) ==
  NewClient(MetaplexAuthWithSigner([secretKey |-> signerKey], publicKey,
                                   AuthOptsOf(opts)), opts)

\* the contexts that a caller has to give
Contexts ==
  (IF client # NoClient THEN {client} ELSE {})
    \cup (IF auth # NoAuth THEN {[auth |-> auth, endpoint |-> undefined]}
          ELSE {})

\* storeCar up to its await: init(), then makeMetaplexUploadToken up to its
\* call of auth.signMessage
storeCarCall(rec, context, cid) ==
  [rec EXCEPT !.pc = "signing", !.context = context, !.cid = cid,
              !.signs = @ + 1, !.service = NoService, !.sent = 0]

\* a variant of the token of a call that keeps the first token made
TokenOfCached(rec) ==
  IF rec.tokens # <<>> THEN rec.tokens[1]
  ELSE makeMetaplexUploadToken(rec.context.auth, CIDToString(rec.cid))

\* the token of a call
TokenOf(rec) ==
  makeMetaplexUploadToken(rec.context.auth, CIDToString(rec.cid))

Free(u) == uploads[u].pc \in {"idle", "done", "failed"}

\* a variant of init() that does not look at the flag
initWithoutFlag ==
  /\ initialized' = TRUE
  /\ NFTStorage_auth' = [overridden |-> TRUE,
                         installs |-> IF NFTStorage_auth.installs < 2
                                        THEN NFTStorage_auth.installs + 1
                                        ELSE 2]

\* init(): NFTStorage.auth is set to the function that makes the x-web3auth
\* header, unless the flag says that it has been; installs counts the
\* assignments
init ==
  /\ initialized' = TRUE
  /\ NFTStorage_auth' =
       IF initialized THEN NFTStorage_auth
       ELSE [overridden |-> TRUE, installs |-> NFTStorage_auth.installs + 1]

storeCarBegin(u, context, cid) ==
  /\ Free(u)
  /\ init
  /\ uploads' = [uploads EXCEPT ![u] =
       storeCarCall([IdleUpload EXCEPT !.op = "storeCar", !.car = 1],
                    context, cid)]
  /\ UNCHANGED <<auth, authError, issued, client, bundleState>>

storePreparedNFTBegin(u, context, nft) ==
  /\ Free(u)
  /\ init
  /\ uploads' = [uploads EXCEPT ![u] =
       storeCarCall([IdleUpload EXCEPT !.op = "storePreparedNFT", !.car = 1,
                                       !.nft = nft],
                    context, nft.encodedMetadata.cid)]
  /\ UNCHANGED <<auth, authError, issued, client, bundleState>>

\* the signature arrives: the token is made and NFTStorage.storeCar called
\* with { endpoint, token }
storeCarSigned(u) ==
  LET rec == uploads[u]
      baseEndpoint == IF Falsy(rec.context.endpoint) THEN DEFAULT_ENDPOINT
                      ELSE rec.context.endpoint
      token == TokenOf(rec)
  IN /\ rec.pc = "signing"
     /\ uploads' = [uploads EXCEPT ![u] =
          [rec EXCEPT !.pc = "uploading",
                      !.tokens = Append(@, token),
                      !.service = [endpoint |-> MetaplexEndpoint(baseEndpoint),
                                   token |-> token]]]
     /\ UNCHANGED <<auth, authError, issued, client, initVars, bundleState>>

\* the signer is one that a caller gave, not the closure over a secret key
\* that MetaplexAuthWithSecretKey makes
IsCallerSigner(ctx) ==
  ctx.publicKey # naclKeyPairFromSecretKey(ctx.signMessage.secretKey).publicKey

\* a variant that calls the signer again when it has rejected
storeCarSignerRejectedRetry(u, err) ==
  LET rec == uploads[u]
  IN /\ rec.pc = "signing"
     /\ IsCallerSigner(rec.context.auth)
     /\ rec.signs < 3
     /\ uploads' = [uploads EXCEPT ![u] =
          [rec EXCEPT !.signerError = err, !.signs = @ + 1]]
     /\ UNCHANGED <<auth, authError, issued, client, initVars, bundleState>>

\* the signer rejects: the await of makeMetaplexUploadToken throws what the
\* signer threw, and so does the await of storeCar
storeCarSignerRejected(u, err) ==
  LET rec == uploads[u]
  IN /\ rec.pc = "signing"
     /\ IsCallerSigner(rec.context.auth)
     /\ uploads' = [uploads EXCEPT ![u] =
          [rec EXCEPT !.pc = "failed", !.signerError = err, !.error = err]]
     /\ UNCHANGED <<auth, authError, issued, client, initVars, bundleState>>

\* NFTStorage.storeCar sends the request of one more chunk
NFTStorageStoreCarRequest(u) ==
  LET rec == uploads[u]
  IN /\ rec.pc = "uploading"
     /\ rec.sent < MaxChunks
     /\ uploads' = [uploads EXCEPT ![u] =
          [rec EXCEPT !.sent = @ + 1,
                      !.requests = @ \cup
                        {[car |-> rec.car, chunk |-> rec.sent + 1,
                          url |-> rec.service.endpoint \o S_upload_path,
                          headers |->
                            NFTStorageAuth(NFTStorage_auth.overridden,
                                           rec.service.token)]}]]
     /\ UNCHANGED <<auth, authError, issued, client, initVars, bundleState>>

\* a variant of storePreparedNFT that returns after its first archive
storeCarReturnedOnce(got) == [got EXCEPT !.pc = "done"]

\* the await of storeCar has returned: storePreparedNFT goes on from its
\* metadata archive to its asset archive, and every call returns after its
\* last archive
storeCarReturned(got) ==
  IF got.op = "storePreparedNFT" /\ got.car = 1
    THEN storeCarCall([got EXCEPT !.car = 2], got.context,
                      got.nft.encodedAssets.cid)
    ELSE [got EXCEPT !.pc = "done"]

\* NFTStorage.storeCar returns the root that the service reports, and
\* storeCar returns it
NFTStorageStoreCarReturn(u, root) ==
  LET rec == uploads[u]
  IN /\ rec.pc = "uploading"
     /\ rec.sent > 0
     /\ uploads' = [uploads EXCEPT ![u] =
          storeCarReturned([rec EXCEPT !.results = Append(@, root)])]
     /\ UNCHANGED <<auth, authError, issued, client, initVars, bundleState>>

\* NFTStorage.storeCar throws, and so does the call
NFTStorageStoreCarThrow(u) ==
  LET rec == uploads[u]
  IN /\ rec.pc = "uploading"
     /\ uploads' = [uploads EXCEPT ![u] =
          [rec EXCEPT !.pc = "failed", !.error = "NFTStorage.storeCar"]]
     /\ UNCHANGED <<auth, authError, issued, client, initVars, bundleState>>

\* MetaplexAuthWithSecretKey and MetaplexAuthWithSigner, of the callers of
\* the static methods
NewAuth(opts) ==
  \/ NewAuthWithSecretKey(ClientKey, opts)
  \/ NewAuthWithSigner(SignerKey, naclKeyPairFromSecretKey(ClientKey).publicKey,
                       opts)

NewClientOf(opts) ==
  \/ withSecretKey(ClientKey, opts)
  \/ withSigner(SignerKey, naclKeyPairFromSecretKey(ClientKey).publicKey, opts)

NextUpload ==
  \/ \E opts \in ClientOpts : NewAuth(AuthOptsOf(opts))
  \/ \E opts \in ClientOpts : NewClientOf(opts)
  \/ \E u \in Uploads, context \in Contexts, cid \in CarCids :
       storeCarBegin(u, context, cid)
  \/ \E u \in Uploads, context \in Contexts :
       storePreparedNFTBegin(u, context, PreparedNFT)
  \/ \E u \in Uploads : storeCarSigned(u)
  \/ \E u \in Uploads, err \in SignerErrors : storeCarSignerRejected(u, err)
  \/ \E u \in Uploads : NFTStorageStoreCarRequest(u)
  \/ \E u \in Uploads, root \in {CIDToString(cid) : cid \in CarCids} :
       NFTStorageStoreCarReturn(u, root)
  \/ \E u \in Uploads : NFTStorageStoreCarThrow(u)

UploadSpec == InitDefault /\ [][NextUpload]_vars

\* the calls that add to a bundle
Next ==
  \/ \E c \in Calls, id \in Ids, input \in Inputs : addNFT(c, id, input)
  \/ \E c \in Calls, p \in Paths, optsId \in OptIds :
       addNFTFromFileSystem(c, p, optsId)
  \/ \E c \in Calls : loadNFTFromFilesystem(c)
  \/ \E c \in Calls : prepareMetaplexNFT(c)
  \/ \E c \in Calls : addManifestEntry(c)

Spec == Init /\ [][Next]_vars

\* a bundle is filled and made into an archive
NextCar ==
  \/ \E c \in Calls, id \in {IdA, IdAtLimit}, input \in Inputs :
       ~SchemaInvalid(input) /\ addNFT(c, id, input)
  \/ \E c \in Calls : prepareMetaplexNFT(c)
  \/ \E c \in Calls : addManifestEntry(c)
  \/ \E op \in {"makeRootBlock", "asCAR"} : makeRootBlockBegin(op)
  \/ makeRootBlockWrap
  \/ makeRootBlockReturn
  \/ asCAR

CarSpec == InitDefault /\ [][NextCar]_vars

(***************************************************************************)
(* Properties of NFTBundle.                                                *)
(***************************************************************************)
\* the call of slot c comes back from its await and settles in this step
Inserts(c) == calls[c].pc = "insert" /\ calls'[c].pc = "idle"

\* a call settles in this step
Settles == last' # last

\* C1: in every reachable state the number of entries is at most MAX_ENTRIES,
\* also when calls are started while earlier calls still await packaging.
C1_EntriesWithinMax == Cardinality(DOMAIN nfts) <= MAX_ENTRIES

\* C2: sequential addNFT calls with pairwise distinct ids succeed while the
\* bundle is below MAX_ENTRIES: a call that overlapped no other call, and whose
\* id is the id of no entry, resolves and its id becomes a key.  A call started
\* with MAX_ENTRIES entries, and nothing in flight, fails with the capacity
\* error and leaves the entries as they were.
C2_FillThenCapacityError ==
  [][ /\ \A c \in Calls :
           Inserts(c) /\ calls[c].alone /\ calls[c].id \notin DOMAIN nfts
             => /\ last'.error = "none"
                /\ DOMAIN nfts' = DOMAIN nfts \cup {calls[c].id}
      /\ \A c \in Calls, id \in Ids, input \in Inputs :
           /\ addNFT(c, id, input)
           /\ \A k \in Calls : ~InFlight(k)
           /\ Cardinality(DOMAIN nfts) >= MAX_ENTRIES
           => last'.error = "capacity" /\ nfts' = nfts ]_vars

\* C3: of the addNFT calls with one id, sequential or overlapping, exactly one
\* succeeds: the first to come back from packaging resolves, every other one
\* fails with the duplicate-id error, and the entry stays the PackagedNFT of the
\* call that succeeded.
C3_SameIdTwice ==
  [][ \A c \in Calls : Inserts(c) =>
        IF calls[c].id \in DOMAIN nfts
          THEN last'.error = "duplicate" /\ nfts' = nfts
          ELSE /\ last'.error = "none"
               /\ calls[c].id \in DOMAIN nfts'
               /\ nfts'[calls[c].id] = calls[c].nft
               /\ \A k \in DOMAIN nfts : nfts'[k] = nfts[k] ]_vars

\* C4 (as the code has it): a call that fails on the entry-count ceiling or on
\* the id-length ceiling has written no block; a call that fails on a duplicate
\* id fails after packaging, with the blocks of its NFT written to the block
\* store, and leaves the entries as they were.
C4_CeilingsBeforePackaging ==
  [][ Settles =>
        /\ last'.error \in {"capacity", "length"} => last'.wrote = {}
        /\ last'.error = "duplicate" =>
             /\ last'.wrote # {}
             /\ \A b \in last'.wrote : CID(b) \in DOMAIN blockstore'
             /\ nfts' = nfts ]_vars

\* C4 (as stated): a call that fails on the entry-count ceiling, the id-length
\* ceiling or a duplicate id has written no block to the block store.
C4_NoPackagingBeforeFailure ==
  [][ Settles /\ last'.error \in {"capacity", "length", "duplicate"}
        => last'.wrote = {} ]_vars

\* C4, reached: a call failed on a duplicate id after it had written blocks
C4_Witness == last.error = "duplicate" /\ last.wrote # {}

\* the call of slot c is started in this step and goes on to its first await
GoesOn(c) == calls[c].pc = "idle" /\ calls'[c].pc # "idle"

\* C5: every key has a UTF-8 byte length of at most MAX_ID_LEN.  Of the calls
\* of addNFT and addNFTFromFileSystem, no call whose id (given, or the name of
\* the metadata file without `.json`) has more than MAX_ID_LEN bytes goes on to
\* packaging, and no call is rejected with the id-length error unless its id
\* has more than MAX_ID_LEN bytes: an id of exactly MAX_ID_LEN bytes is
\* accepted.  Bytes are counted, not characters.
C5_IdByteLength ==
  /\ [](\A k \in DOMAIN nfts : Len(TextEncoderEncode(k)) <= MAX_ID_LEN)
  /\ [][ /\ \A c \in Calls : GoesOn(c) =>
              /\ Len(TextEncoderEncode(calls'[c].id)) <= MAX_ID_LEN
              /\ calls'[c].pc = "load" =>
                   \/ calls'[c].id \in OptIds \ {<<>>}
                   \/ calls'[c].id = basename(calls'[c].path, S_dot_json)
         /\ Settles /\ last'.error = "length" =>
              Len(TextEncoderEncode(last'.id)) > MAX_ID_LEN ]_vars

\* C5, reached: an id of exactly MAX_ID_LEN bytes, in fewer characters, is a
\* key, and the last call was rejected for an id of fewer than MAX_ID_LEN
\* characters
C5_Witness ==
  /\ IdAtLimit \in DOMAIN nfts
  /\ Len(TextEncoderEncode(IdAtLimit)) = MAX_ID_LEN
  /\ Len(IdAtLimit) < MAX_ID_LEN
  /\ last.error = "length"
  /\ Len(last.id) < MAX_ID_LEN

\* C6: a call that was started below the ceilings and comes back from
\* packaging is rejected with the duplicate-id error if and only if an entry
\* with its id was added before; otherwise it resolves and manifest()[id] is the
\* PackagedNFT it returns; when it is rejected manifest() has no new key.
C6_DuplicateIffAddedBefore ==
  [][ \A c \in Calls : Inserts(c) =>
        /\ (last'.error = "duplicate") <=> (calls[c].id \in DOMAIN manifest)
        /\ last'.error # "duplicate" =>
             /\ last'.error = "none"
             /\ calls[c].id \in DOMAIN manifest'
             /\ manifest'[calls[c].id] = calls[c].nft
        /\ last'.error # "none" => DOMAIN manifest' = DOMAIN manifest ]_vars

\* C7: with the default ceilings MAX_ENTRIES = 2200 and MAX_ID_LEN = 64 and at
\* most 114 bytes a link, MAX_ENTRIES links take less than 256 KiB, and so do
\* the links of any bundle that has at most MAX_ENTRIES entries.
C7_RootBlockBelowLimit ==
  /\ DEFAULT_MAX_ENTRIES = 2200
  /\ MAX_ID_LEN = 64
  /\ DEFAULT_MAX_ENTRIES * MAX_LINK_BYTES < ROOT_BLOCK_LIMIT
  /\ MAX_ENTRIES = DEFAULT_MAX_ENTRIES /\ Cardinality(DOMAIN nfts) <= MAX_ENTRIES
       => Cardinality(DOMAIN nfts) * MAX_LINK_BYTES < ROOT_BLOCK_LIMIT

\* C7, reached: a bundle with the default ceiling holds an entry whose id has
\* MAX_ID_LEN bytes
C7_Witness ==
  /\ MAX_ENTRIES = DEFAULT_MAX_ENTRIES
  /\ IdAtLimit \in DOMAIN nfts
  /\ ByteLength(IdAtLimit) = MAX_ID_LEN

\* the wrapper directory of an entry: `metadata` and `assets`, to its two roots
WrapperOf(nft) ==
  [type |-> "directory", data |-> NoData,
   links |-> {[Name |-> S_metadata, Hash |-> nft.encodedMetadata.cid],
              [Name |-> S_assets, Hash |-> nft.encodedAssets.cid]}]

\* the root directory of entries: one link an entry, named by its id
RootOf(entries) ==
  [type |-> "directory", data |-> NoData,
   links |-> {[Name |-> id, Hash |-> CID(WrapperOf(entries[id]))] :
                id \in DOMAIN entries}]

\* C8: the block makeRootBlock returns is a directory with exactly one link
\* for every entry the bundle had when it was called, named by the entry's id;
\* each link points to a directory that is in the block store and has exactly
\* two links, `metadata` to the entry's metadata root and `assets` to its
\* asset root.
C8_RootBlockLinks ==
  fin.pc \in {"put", "returned"} =>
    /\ fin.rootBlock.type = "directory"
    /\ Cardinality(fin.rootBlock.links) = Cardinality(DOMAIN fin.entries)
    /\ {l.Name : l \in fin.rootBlock.links} = DOMAIN fin.entries
    /\ \A l \in fin.rootBlock.links :
         /\ l.Hash \in DOMAIN blockstore
         /\ blockstore[l.Hash].type = "directory"
         /\ Cardinality(blockstore[l.Hash].links) = 2
         /\ blockstore[l.Hash].links =
              {[Name |-> S_metadata,
                Hash |-> fin.entries[l.Name].encodedMetadata.cid],
               [Name |-> S_assets,
                Hash |-> fin.entries[l.Name].encodedAssets.cid]}

\* C8, reached: makeRootBlock has returned the root of a bundle of two entries
C8_Witness ==
  /\ fin.op = "makeRootBlock"
  /\ fin.pc = "returned"
  /\ Cardinality(DOMAIN fin.entries) = 2

\* C9: the archive asCAR returns has exactly one root; the root is the cid
\* asCAR returns, the address of the root block of the entries the bundle had
\* when asCAR was called; that block is in the block store when asCAR returns;
\* the archive has every block of every NFT that was added to the bundle.
C9_ArchiveOfBundle ==
  fin.op = "asCAR" /\ fin.pc = "returned" =>
    /\ fin.car.version = 1
    /\ Len(fin.car.roots) = 1
    /\ fin.car.roots[1] = fin.cid
    /\ fin.cid = CID(RootOf(fin.entries))
    /\ fin.cid \in DOMAIN blockstore
    /\ blockstore[fin.cid] = RootOf(fin.entries)
    /\ CarHas(fin.car, fin.cid)
    /\ \A id \in DOMAIN nfts :
         \A b \in NFTBlocks([meta |-> nfts[id].metadata,
                             validateSchema |-> FALSE]) :
           CarHas(fin.car, CID(b))

\* C9, reached: asCAR has returned the archive of a bundle of two entries
C9_Witness ==
  /\ fin.op = "asCAR"
  /\ fin.pc = "returned"
  /\ Cardinality(DOMAIN nfts) = 2
  /\ Cardinality(fin.rootBlock.links) = 2

(***************************************************************************)
(* Properties of the tokens.                                               *)
(***************************************************************************)
RECURSIVE Split(_, _)
\* s.split(sep), sep one code unit
Split(s, sep) ==
  IF \A i \in 1..Len(s) : s[i] # sep THEN <<s>>
  ELSE LET i == CHOOSE j \in 1..Len(s) :
                  s[j] = sep /\ \A k \in 1..(j - 1) : s[k] # sep
       IN <<SubSeq(s, 1, i - 1)>> \o Split(SubSeq(s, i + 1, Len(s)), sep)

\* the value of a character of the base64url alphabet
Base64UrlValue(ch) ==
  IF ch >= 65 /\ ch <= 90 THEN ch - 65
  ELSE IF ch >= 97 /\ ch <= 122 THEN ch - 71
  ELSE IF ch >= 48 /\ ch <= 57 THEN ch + 4
  ELSE IF ch = 45 THEN 62
  ELSE 63

\* the bytes an unpadded base64url string stands for
b64urlDecode(s) ==
  [j \in 1..((3 * Len(s)) \div 4) |->
     LET g == (j - 1) \div 3
         k == (j - 1) % 3
         v(m) == IF 4 * g + m <= Len(s) THEN Base64UrlValue(s[4 * g + m])
                 ELSE 0
         n == v(1) * 262144 + v(2) * 4096 + v(3) * 64 + v(4)
     IN IF k = 0 THEN n \div 65536
        ELSE IF k = 1 THEN (n \div 256) % 256
        ELSE n % 256]

\* C10: the third segment of a token issued for an AuthContext made from a
\* secret key is the signature over exactly the UTF-8 bytes of the first
\* segment, a dot and the second segment, without a domain prefix: it verifies
\* over these bytes against the public key of the AuthContext, the public key
\* of the secret key, and does not verify over the prefixed bytes.
C10_SignatureOverSegments ==
  issued # NoToken =>
    LET segments == Split(issued.token, 46)
        message == TextEncoderEncode(segments[1] \o <<46>> \o segments[2])
        sig == b64urlDecode(segments[3])
    IN /\ Len(segments) = 3
       /\ Len(sig) = 64
       /\ issued.auth.publicKey =
            SubSeq(issued.auth.signMessage.secretKey, 33, 64)
       /\ naclVerifyDetached(message, sig, issued.auth.publicKey)
       /\ ~naclVerifyDetached(TextEncoderEncode(SigningDomainPrefix) \o message,
                              sig, issued.auth.publicKey)

\* C10, reached: a token was issued for the second root address by an
\* AuthContext that has since been replaced by one with another key
C10_Witness ==
  /\ issued # NoToken
  /\ issued.rootCID = RootCIDB
  /\ Len(Split(issued.token, 46)) = 3
  /\ auth.publicKey # issued.auth.publicKey

(***************************************************************************)
(* JSON.parse, of the text of an object of strings and objects whose       *)
(* strings hold no escape; any other text does not parse.                  *)
(***************************************************************************)
At(text, i) == IF i \in 1..Len(text) THEN text[i] ELSE 0

\* the place of the first quote or backslash from i on, or past the end
StringEnd(text, i) ==
  LET ends == {j \in i..Len(text) : text[j] \in {34, 92}}
  IN IF ends = {} THEN Len(text) + 1
     ELSE CHOOSE j \in ends : \A k \in ends : j <= k

NoParse == [ok |-> FALSE, v |-> Undef, next |-> 0]

\* the string that starts at i
ParseString(text, i) ==
  LET e == StringEnd(text, i + 1)
  IN IF At(text, i) = 34 /\ At(text, e) = 34
       THEN [ok |-> TRUE, v |-> Str(SubSeq(text, i + 1, e - 1)),
             next |-> e + 1]
       ELSE NoParse

RECURSIVE ParseValue(_, _)
RECURSIVE ParseMembers(_, _, _)
\* the members of an object from i on, after the members acc
ParseMembers(text, i, acc) ==
  LET k == ParseString(text, i)
      v == ParseValue(text, k.next + 1)
      members == Append(acc, [key |-> k.v.s, value |-> v.v])
  IN IF ~k.ok \/ At(text, k.next) # 58 THEN NoParse
     ELSE IF ~v.ok THEN NoParse
     ELSE IF At(text, v.next) = 44 THEN ParseMembers(text, v.next + 1, members)
     ELSE IF At(text, v.next) = 125
       THEN [ok |-> TRUE, v |-> Obj(members), next |-> v.next + 1]
     ELSE NoParse

\* the value that starts at i
ParseValue(text, i) ==
  IF At(text, i) = 34 THEN ParseString(text, i)
  ELSE IF At(text, i) = 123
    THEN IF At(text, i + 1) = 125
           THEN [ok |-> TRUE, v |-> Obj(<<>>), next |-> i + 2]
           ELSE ParseMembers(text, i + 1, <<>>)
  ELSE NoParse

JSONParse(text) ==
  LET r == ParseValue(text, 1)
  IN IF r.ok /\ r.next = Len(text) + 1 THEN r.v ELSE Undef

\* the keys of an object, and obj[key]
Keys(obj) ==
  IF obj.t = "object" THEN {obj.members[i].key : i \in 1..Len(obj.members)}
  ELSE {}

Get(obj, key) ==
  IF key \in Keys(obj)
    THEN LET at == {i \in 1..Len(obj.members) : obj.members[i].key = key}
         IN obj.members[CHOOSE i \in at : \A j \in at : j <= i].value
    ELSE Undef

\* the text that bytes below 128 are the UTF-8 encoding of
IsASCII(bytes) == \A i \in 1..Len(bytes) : bytes[i] < 128

\* the object that a segment of a token decodes to
DecodeSegment(segment) ==
  LET bytes == b64urlDecode(segment)
  IN IF IsASCII(bytes) THEN JSONParse(bytes) ELSE Undef

\* "token"
S_token == <<116, 111, 107, 101, 110>>

\* the token has three segments and the first decodes to alg EdDSA with the
\* type typ
ThreeSegmentsWithHeader(token, typ) ==
  LET segments == Split(token, 46)
      header == DecodeSegment(segments[1])
  IN /\ Len(segments) = 3
     /\ Keys(header) = {S_alg, S_typ}
     /\ Len(header.members) = 2
     /\ Get(header, S_alg) = Str(S_EdDSA)
     /\ Get(header, S_typ) = Str(typ)

\* C11, as amended: every token issued for an AuthContext and a root address
\* has exactly three segments between dots, and its first segment decodes to
\* the fixed header with alg "EdDSA" and typ "JWT".
C11_ThreeSegmentsHeaderJWT ==
  issued # NoToken => ThreeSegmentsWithHeader(issued.token, S_JWT)

\* C11, as stated: every token issued has exactly three segments between
\* dots, and its first segment decodes to the fixed header with alg "EdDSA"
\* and typ "token".
C11_ThreeSegmentsHeaderToken ==
  issued # NoToken => ThreeSegmentsWithHeader(issued.token, S_token)

\* C11, reached: a token was issued for the first root address by an
\* AuthContext made from a signer
C11_Witness ==
  /\ issued # NoToken
  /\ issued.rootCID = RootCIDA
  /\ issued.auth.publicKey # SubSeq(issued.auth.signMessage.secretKey, 33, 64)
  /\ Len(Split(issued.token, 46)) = 3

\* payload.req.put of a token
PutOf(token) ==
  Get(Get(DecodeSegment(Split(token, 46)[2]), S_req), S_put)

\* C12: the payload of every token issued for an AuthContext built by
\* MetaplexAuthWithSigner or MetaplexAuthWithSecretKey carries req.put.rootCID
\* equal to the requested root address and exactly the tags chain = "solana",
\* solanaCluster = the cluster of the AuthContext, mintingAgent = its
\* non-empty minting agent and, if and only if the AuthContext has an
\* agentVersion, agentVersion = that version.
C12_PayloadRootAndTags ==
  issued # NoToken =>
    LET put == PutOf(issued.token)
        tags == Get(put, S_tags)
        ctx == issued.auth
    IN /\ Keys(put) = {S_rootCID, S_tags}
       /\ Get(put, S_rootCID) = Str(issued.rootCID)
       /\ Get(tags, TagChain) = Str(S_solana)
       /\ Get(tags, TagSolanaCluster) = Str(ctx.solanaCluster)
       /\ ctx.solanaCluster # <<>>
       /\ Get(tags, TagMintingAgent) = Str(ctx.mintingAgent)
       /\ ctx.mintingAgent # <<>>
       /\ TagMintingAgentVersion \in Keys(tags) <=> ctx.agentVersion # undefined
       /\ ctx.agentVersion # undefined =>
            Get(tags, TagMintingAgentVersion) = Str(ctx.agentVersion)
       /\ Keys(tags) \subseteq {TagChain, TagSolanaCluster, TagMintingAgent,
                                TagMintingAgentVersion}
       /\ Len(tags.members) = Cardinality(Keys(tags))

\* C12, reached: a token was issued for an AuthContext without an
\* agentVersion, made from a signer, and its tags are the three others
C12_Witness ==
  /\ issued # NoToken
  /\ issued.auth.agentVersion = undefined
  /\ issued.auth.publicKey # SubSeq(issued.auth.signMessage.secretKey, 33, 64)
  /\ Keys(Get(PutOf(issued.token), S_tags)) =
       {TagChain, TagSolanaCluster, TagMintingAgent}

\* "devnet", "testnet"
S_devnet == <<100, 101, 118, 110, 101, 116>>

S_testnet == <<116, 101, 115, 116, 110, 101, 116>>

\* the values that SPEC.md names for the cluster
CanonicalClusters == {S_mainnet_beta, S_devnet, S_testnet}

\* the solanaCluster tag of a token
ClusterTagOf(token) == Get(Get(PutOf(token), S_tags), TagSolanaCluster)

\* this step is a call of a constructor with the options opts
Constructs(opts) ==
  \/ \E privkey \in PrivKeys : NewAuthWithSecretKey(privkey, opts)
  \/ \E signerKey \in PrivKeys, publicKey \in PublicKeys :
       NewAuthWithSigner(signerKey, publicKey, opts)

\* a constructor that returns an AuthContext for a caller who gives no
\* cluster returns one of the cluster "devnet"
DevnetWhenNoneGiven ==
  \A opts \in AuthOpts :
    Constructs(opts) /\ authError' = "none" /\ opts.solanaCluster = undefined
      => auth'.solanaCluster = S_devnet

\* C13, as amended: the cluster of every AuthContext is the string the caller
\* gives, whether or not it is one of "mainnet-beta", "devnet", "testnet", and
\* it is "devnet" when the caller gives no cluster or an empty one; the
\* solanaCluster tag of every issued token is the cluster of its AuthContext.
C13_ClusterAsGivenOrDevnet ==
  /\ [](issued # NoToken =>
          ClusterTagOf(issued.token) = Str(issued.auth.solanaCluster))
  /\ [][ \A opts \in AuthOpts :
           \/ auth'.solanaCluster =
                IF opts.solanaCluster \in {undefined, <<>>} THEN S_devnet
                ELSE opts.solanaCluster
           \/ ~(authError' = "none" /\ Constructs(opts)) ]_vars

\* C13, as stated: the cluster of every AuthContext, and the solanaCluster tag
\* of every issued token, is one of "mainnet-beta", "devnet", "testnet", and
\* it is "devnet" when the caller gives no cluster.
C13_ClusterOneOfThree ==
  /\ [](auth # NoAuth => auth.solanaCluster \in CanonicalClusters)
  /\ [](issued # NoToken =>
          ClusterTagOf(issued.token) \in {Str(c) : c \in CanonicalClusters})
  /\ [][DevnetWhenNoneGiven]_vars

\* C13, reached: a token carries the cluster "localnet" that the caller gave,
\* and the AuthContext made since, without a cluster, has "devnet"
C13_Witness ==
  /\ issued # NoToken
  /\ ClusterTagOf(issued.token) = Str(S_localnet)
  /\ auth.solanaCluster = S_devnet

\* the place of a character in the base58btc alphabet, less one
Base58Value(ch) ==
  (CHOOSE i \in 1..Len(Base58btcAlphabet) : Base58btcAlphabet[i] = ch) - 1

RECURSIVE DivideBy256(_, _, _, _)
\* the quotient and the remainder of the number of the base-58 digits from i
\* on, after rem, by 256
DivideBy256(digits, i, rem, quotient) ==
  IF i > Len(digits) THEN [quotient |-> quotient, rem |-> rem]
  ELSE LET n == rem * 58 + digits[i]
       IN DivideBy256(digits, i + 1, n % 256,
                      IF quotient = <<>> /\ n \div 256 = 0 THEN <<>>
                      ELSE Append(quotient, n \div 256))

\* the bytes of a number given by its base-58 digits, most significant first
RECURSIVE Base58Number(_)
Base58Number(digits) ==
  IF digits = <<>> THEN <<>>
  ELSE LET d == DivideBy256(digits, 1, 0, <<>>)
       IN Append(Base58Number(d.quotient), d.rem)

\* base58btc.decode(s): the bytes that s, after its prefix z, stands for
base58btcDecode(s) ==
  LET digits == [i \in 1..(Len(s) - 1) |-> Base58Value(s[i + 1])]
      zeros == LeadingZeros(digits, 1)
  IN [i \in 1..zeros |-> 0]
       \o Base58Number(SubSeq(digits, zeros + 1, Len(digits)))

\* payload.iss of a token
IssOf(token) == Get(DecodeSegment(Split(token, 46)[2]), S_iss)

\* the bytes that the identifier iss holds after "did:key:"
KeyBytesOf(iss) ==
  base58btcDecode(SubSeq(iss.s, Len(S_did_key) + 1, Len(iss.s)))

\* iss is a string that starts with "did:key:z" and goes on in the base58btc
\* alphabet
IsKeyDID(iss) ==
  /\ iss.t = "string"
  /\ Len(iss.s) > Len(S_did_key) + 1
  /\ SubSeq(iss.s, 1, Len(S_did_key) + 1) = S_did_key \o <<122>>
  /\ \A i \in (Len(S_did_key) + 2)..Len(iss.s) :
       \E j \in 1..Len(Base58btcAlphabet) : Base58btcAlphabet[j] = iss.s[i]

\* C14, as amended: the payload iss of a token equals keyDID(auth.publicKey),
\* and the bytes it multibase-encodes are the fixed multicodec prefix, the two
\* bytes 0xed 0x01 of the varint of 0xed, followed by the raw public key
\* bytes; so the identifier of the key of the current AuthContext equals iss
\* if and only if the keys are equal.
C14_IssuerIsKeyDID ==
  issued # NoToken =>
    LET iss == IssOf(issued.token)
    IN /\ IsKeyDID(iss)
       /\ iss = Str(keyDID(issued.auth.publicKey))
       /\ KeyBytesOf(iss) = <<237, 1>> \o issued.auth.publicKey
       /\ auth # NoAuth =>
            (Str(keyDID(auth.publicKey)) = iss
               <=> auth.publicKey = issued.auth.publicKey)

\* C14, as stated: the payload iss of a token equals keyDID(auth.publicKey),
\* and the bytes it multibase-encodes are the one prefix byte 0xed followed by
\* the raw public key bytes.
C14_IssuerOneByteCodec ==
  issued # NoToken =>
    LET iss == IssOf(issued.token)
    IN /\ IsKeyDID(iss)
       /\ iss = Str(keyDID(issued.auth.publicKey))
       /\ KeyBytesOf(iss) = <<237>> \o issued.auth.publicKey

\* C14, reached: a token names the key of its AuthContext, and the current
\* AuthContext has another key and so another identifier
C14_Witness ==
  /\ issued # NoToken
  /\ auth # NoAuth
  /\ auth.publicKey # issued.auth.publicKey
  /\ IssOf(issued.token) # Str(keyDID(auth.publicKey))
  /\ Len(KeyBytesOf(IssOf(issued.token))) = 34

(***************************************************************************)
(* Properties of the client and of the uploads.                            *)
(***************************************************************************)
\* the AuthContexts that the callers and the uploads hold
AuthContextsHeld ==
  {ctx \in {auth, client.auth} \cup {uploads[u].context.auth : u \in Uploads} :
     ctx # NoAuth}

ArchiveRoot(rec, i) ==
  IF rec.op = "storePreparedNFT"
    THEN (IF i = 1 THEN rec.nft.encodedMetadata.cid
          ELSE rec.nft.encodedAssets.cid)
    ELSE rec.cid

\* C16: every call of storeCar, those of storePreparedNFT included, calls the
\* signer once and, unless the signer is still at it or has rejected, has made
\* one token, whose req.put.rootCID is the string form of the cid of that
\* call; every chunk request of the call carries that
\* token, in the header x-web3auth after "Metaplex ".  So a call of
\* storePreparedNFT that is done has made two tokens, the first for the root
\* of the metadata archive and the second for the root of the asset archive,
\* and a call of storeCar that is done has made one.
C16_OneTokenPerStoreCar ==
  \A u \in Uploads :
    LET rec == uploads[u]
    IN /\ rec.signs = rec.car
       /\ Len(rec.tokens) =
            IF rec.pc = "signing" \/ rec.signerError # "none" THEN rec.car - 1
            ELSE rec.car
       /\ rec.pc = "done" =>
            rec.car = IF rec.op = "storePreparedNFT" THEN 2 ELSE 1
       /\ \A i \in 1..Len(rec.tokens) :
            Get(PutOf(rec.tokens[i]), S_rootCID) =
              Str(CIDToString(ArchiveRoot(rec, i)))
       /\ \A r \in rec.requests :
            /\ r.car \in 1..Len(rec.tokens)
            /\ r.headers = [name |-> S_x_web3auth,
                            value |-> S_Metaplex \o rec.tokens[r.car]]

\* C16, reached: a call of storePreparedNFT is done, after two chunk requests
\* for each archive, with two tokens that differ
C16_Witness ==
  \E u \in Uploads :
    /\ uploads[u].op = "storePreparedNFT"
    /\ uploads[u].pc = "done"
    /\ Len(uploads[u].tokens) = 2
    /\ uploads[u].tokens[1] # uploads[u].tokens[2]
    /\ {<<r.car, r.chunk>> : r \in uploads[u].requests} = (1..2) \X (1..2)

\* C21: when the signer rejects while the token of a call of storeCar is
\* made, the call fails with what the signer threw, the signer has been called
\* once for that storeCar and not again, no token has been made for it,
\* NFTStorage.storeCar has not been called and no request of that archive has
\* been sent.
C21_SignerFailurePropagates ==
  \A u \in Uploads :
    LET rec == uploads[u]
    IN rec.signerError # "none" =>
         /\ rec.pc = "failed"
         /\ rec.error = rec.signerError
         /\ rec.signs = rec.car
         /\ Len(rec.tokens) = rec.car - 1
         /\ rec.service = NoService
         /\ \A r \in rec.requests : r.car < rec.car

\* C21, reached: the signer has rejected the token of the second archive of
\* storePreparedNFT, after the requests of the first
C21_Witness ==
  \E u \in Uploads :
    /\ uploads[u].signerError \in SignerErrors
    /\ uploads[u].op = "storePreparedNFT"
    /\ uploads[u].car = 2
    /\ uploads[u].requests # {}

(***************************************************************************)
(* Links: new URL(path, base), makeGatewayURL and makeIPFSURI.             *)
(***************************************************************************)
\* "https://nftstorage.link"
DEFAULT_GATEWAY_HOST == <<104, 116, 116, 112, 115, 58, 47, 47, 110, 102,
  116, 115, 116, 111, 114, 97, 103, 101, 46, 108, 105, 110, 107>>
\* "https://dweb.link"
S_dweb_link == <<104, 116, 116, 112, 115, 58, 47, 47, 100, 119, 101, 98, 46,
  108, 105, 110, 107>>
\* "/ipfs/"
S_ipfs_path == <<47, 105, 112, 102, 115, 47>>
\* "ipfs"
S_ipfs == <<105, 112, 102, 115>>
\* "ipfs://"
S_ipfs_scheme == <<105, 112, 102, 115, 58, 47, 47>>

IsAlpha(u) == (u >= 65 /\ u <= 90) \/ (u >= 97 /\ u <= 122)

\* a code unit that a URL scheme goes on with: alphanumeric, "+", "-", "."
IsSchemeChar(u) ==
  IsAlpha(u) \/ (u >= 48 /\ u <= 57) \/ u = 43 \/ u = 45 \/ u = 46

\* the index of the ":" that ends the scheme s starts with, 0 if s starts
\* with no scheme
SchemeEnd(s) ==
  LET colons == {i \in 1..Len(s) : s[i] = 58}
      first == CHOOSE i \in colons : \A j \in colons : i <= j
  IN IF colons = {} THEN 0
     ELSE IF first > 1 /\ IsAlpha(s[1])
               /\ \A j \in 2..(first - 1) : IsSchemeChar(s[j])
       THEN first
     ELSE 0

\* the scheme of an absolute URL, lower case as the names of the model are
SchemeOf(s) == SubSeq(s, 1, SchemeEnd(s) - 1)

\* "0123456789ABCDEF"
UpperHexDigits == <<48, 49, 50, 51, 52, 53, 54, 55, 56, 57, 65, 66, 67, 68,
  69, 70>>

\* the path percent-encode set, of the code units below 128: the C0
\* controls, space, '"', "#", "<", ">", "?", "`", "{", "}" and DEL
InPathPercentEncodeSet(u) ==
  u <= 32 \/ u \in {34, 35, 60, 62, 63, 96, 123, 125, 127}

\* one segment of a path as the URL serializer writes it
PercentEncode(seg) ==
  Concat([i \in 1..Len(seg) |->
            IF InPathPercentEncodeSet(seg[i])
              THEN <<37, UpperHexDigits[(seg[i] \div 16) + 1],
                     UpperHexDigits[(seg[i] % 16) + 1]>>
              ELSE <<seg[i]>>])

\* ".." and "."
S_dot_dot == <<46, 46>>

S_dot == <<46>>

\* the path state of the URL parser: the segments segs[i], ... of a relative
\* reference are taken onto the path dir; ".." shortens the path, "." is
\* left out, and either leaves an empty segment when it comes last
RECURSIVE ResolveSegments(_, _, _)
ResolveSegments(dir, segs, i) ==
  IF i > Len(segs) THEN dir
  ELSE LET seg == segs[i]
           trailing == IF i = Len(segs) THEN << <<>> >> ELSE <<>>
           next ==
             IF seg = S_dot_dot
               THEN (IF dir = <<>> THEN <<>>
                     ELSE SubSeq(dir, 1, Len(dir) - 1)) \o trailing
             ELSE IF seg = S_dot THEN dir \o trailing
             ELSE Append(dir, PercentEncode(seg))
       IN ResolveSegments(next, segs, i + 1)

\* "/" + segment, for every segment of a path
SerializePath(path) ==
  Concat([i \in 1..Len(path) |-> <<47>> \o path[i]])

\* new URL(path, base).toString(), of a base that is scheme and host
\* (origin, its scheme baseScheme) and the segments basePath.  A path that
\* starts with another scheme is an absolute URL and the base is not looked
\* at; an empty path gives the base; a path that starts with "/" takes the
\* place of the path of the base; any other path is resolved against the
\* path of the base without its last segment.  The names of the model hold
\* no "?", "#" or "\", no leading or trailing space and no tab or newline.
NewURL(path, origin, baseScheme, basePath) ==
  IF SchemeEnd(path) > 0 /\ SchemeOf(path) # baseScheme THEN path
  ELSE IF path = <<>> THEN origin \o SerializePath(basePath)
  ELSE IF path[1] = 47
    THEN origin \o SerializePath(
           ResolveSegments(<<>>, Split(SubSeq(path, 2, Len(path)), 47), 1))
  ELSE origin \o SerializePath(
         ResolveSegments(
           IF basePath = <<>> THEN <<>>
           ELSE SubSeq(basePath, 1, Len(basePath) - 1),
           Split(path, 47), 1))

\* makeGatewayURL(cid, path, host): the path prefix is "/ipfs/<cid>", with
\* a "/" after it if path is not empty; host is a scheme and a host
makeGatewayURL(cid, path, host) ==
  LET gateway == IF Falsy(host) THEN DEFAULT_GATEWAY_HOST ELSE host
      pathPrefix == IF path # <<>> THEN <<S_ipfs, cid, <<>> >>
                    ELSE <<S_ipfs, cid>>
  IN NewURL(path, gateway, SchemeOf(gateway), pathPrefix)

\* makeIPFSURI(cid, path): new URL(path, `ipfs://${cid}`)
makeIPFSURI(cid, path) == NewURL(path, S_ipfs_scheme \o cid, S_ipfs, <<>>)

(***************************************************************************)
(* replaceFileRefsWithIPFSLinks.  Metadata is a JSON value: an object is   *)
(* the sequence of its members, in the order of their insertion.           *)
(***************************************************************************)
\* "image"
S_image == <<105, 109, 97, 103, 101>>
\* "animation_url"
S_animation_url == <<97, 110, 105, 109, 97, 116, 105, 111, 110, 95, 117,
  114, 108>>
\* "properties"
S_properties == <<112, 114, 111, 112, 101, 114, 116, 105, 101, 115>>
\* "files"
S_files == <<102, 105, 108, 101, 115>>
\* "uri"
S_uri == <<117, 114, 105>>
\* "cdn"
S_cdn == <<99, 100, 110>>
\* "name"
S_name == <<110, 97, 109, 101>>
\* "type"
S_type == <<116, 121, 112, 101>>

\* a value that `||` and `&&` take as true
Truthy(v) ==
  \/ v.t \in {"object", "array"}
  \/ v.t = "string" /\ v.s # <<>>
  \/ v.t = "boolean" /\ v.b

\* { ...v }: the members of an object, none of undefined
Spread(v) == IF v.t = "object" THEN v ELSE Obj(<<>>)

\* { ...obj, [key]: value }: the value takes the place of the member with
\* that key, or comes last
With(obj, key, value) ==
  IF key \in Keys(obj)
    THEN Obj([i \in 1..Len(obj.members) |->
                IF obj.members[i].key = key
                  THEN [key |-> key, value |-> value]
                  ELSE obj.members[i]])
    ELSE Obj(Append(obj.members, [key |-> key, value |-> value]))

\* additionalFilenames.includes(v)
Includes(filenames, v) ==
  v.t = "string" /\ \E i \in 1..Len(filenames) : filenames[i] = v.s

\* f.uri === imageFilename || additionalFilenames.includes(f.uri)
IsAssetRef(f, imageFilename, additionalFilenames) ==
  LET uri == Get(f, S_uri)
  IN (uri.t = "string" /\ uri.s = imageFilename)
       \/ Includes(additionalFilenames, uri)

\* the callback of originalFiles.flatMap
LinkedFileEntries(f, imageFilename, additionalFilenames, assetRootCID, gatewayHost) ==
  IF IsAssetRef(f, imageFilename, additionalFilenames)
    THEN <<With(With(f, S_uri,
                     Str(makeGatewayURL(assetRootCID, Get(f, S_uri).s,
                                        gatewayHost))),
                S_cdn, Bool(TRUE)),
           With(With(f, S_uri,
                     Str(makeIPFSURI(assetRootCID, Get(f, S_uri).s))),
                S_cdn, Bool(FALSE))>>
    ELSE <<f>>

\* animation_url, after
\* `if (animation_url && additionalFilenames.includes(animation_url))`
LinkedAnimationURL(metadata, imageFilename, additionalFilenames, assetRootCID, gatewayHost) ==
  LET animation_url == Get(metadata, S_animation_url)
  IN IF Truthy(animation_url) /\ Includes(additionalFilenames, animation_url)
       THEN Str(makeGatewayURL(assetRootCID, animation_url.s, gatewayHost))
       ELSE animation_url

\* properties.files || [], of metadata.properties || {}
OriginalFiles(metadata) ==
  LET properties == IF Truthy(Get(metadata, S_properties))
                      THEN Get(metadata, S_properties)
                      ELSE Obj(<<>>)
      files == Get(properties, S_files)
  IN IF Truthy(files) THEN files.items ELSE <<>>

replaceFileRefsWithIPFSLinks(metadata, imageFilename, additionalFilenames, assetRootCID, gatewayHost) ==
  LET imageGatewayURL ==
        makeGatewayURL(assetRootCID, imageFilename, gatewayHost)
      originalFiles == OriginalFiles(metadata)
      files == Concat([i \in 1..Len(originalFiles) |->
                         LinkedFileEntries(originalFiles[i], imageFilename,
                                           additionalFilenames, assetRootCID,
                                           gatewayHost)])
      animation_url ==
        LinkedAnimationURL(metadata, imageFilename, additionalFilenames,
                           assetRootCID, gatewayHost)
  IN With(With(With(metadata, S_image, Str(imageGatewayURL)),
               S_animation_url, animation_url),
          S_properties,
          With(Spread(Get(metadata, S_properties)), S_files, Arr(files)))

(***************************************************************************)
(* prepareMetaplexNFT, step by step.                                       *)
(***************************************************************************)
\* "token.png"
S_token_png == <<116, 111, 107, 101, 110, 46, 112, 110, 103>>
\* "anim.mp4"
S_anim_mp4 == <<97, 110, 105, 109, 46, 109, 112, 52>>
\* "a:b.png"
S_a_b_png == <<97, 58, 98, 46, 112, 110, 103>>
\* "a:b.mp4"
S_a_b_mp4 == <<97, 58, 98, 46, 109, 112, 52>>
\* "other.png"
S_other_png == <<111, 116, 104, 101, 114, 46, 112, 110, 103>>
\* "image/png"
S_image_slash_png == <<105, 109, 97, 103, 101, 47, 112, 110, 103>>
\* "NFT"
S_NFT == <<78, 70, 84>>
\* "category"
S_category == <<99, 97, 116, 101, 103, 111, 114, 121>>

Member(key, value) == [key |-> key, value |-> value]

\* the image files that callers pass: named, without a name, and with a
\* name that holds a ":" (which a file name may, but for Windows)
ImageFiles ==
  {File(S_token_png, <<1>>), File(<<>>, <<1>>), File(S_a_b_png, <<1>>)}

\* opts.additionalAssetFiles
AdditionalAssetFiles ==
  {<<>>, <<File(S_anim_mp4, <<2>>)>>,
   <<File(S_anim_mp4, <<2>>), File(S_a_b_mp4, <<3>>)>>}

\* an entry of properties.files
FileEntry(uri) ==
  Obj(<<Member(S_uri, Str(uri)), Member(S_type, Str(S_image_slash_png))>>)

\* an entry that has a cdn flag already, before its uri
FileEntryWithCdn(uri) ==
  Obj(<<Member(S_cdn, Bool(TRUE)), Member(S_uri, Str(uri)),
        Member(S_type, Str(S_image_slash_png))>>)

\* metadata.properties: not there, without files, with files
PropertiesGiven ==
  {Undef,
   Obj(<<Member(S_category, Str(S_image))>>),
   Obj(<<Member(S_files,
                Arr(<<FileEntry(S_other_png), FileEntry(S_token_png),
                      FileEntryWithCdn(S_anim_mp4)>>))>>),
   Obj(<<Member(S_files,
                Arr(<<FileEntry(S_a_b_png), FileEntry(S_image_png),
                      FileEntry(S_a_b_mp4)>>)),
         Member(S_category, Str(S_image))>>)}

\* metadata.image and metadata.animation_url: not there, or a string
ImagesGiven == {undefined, S_token_png, S_other_png}

AnimationURLsGiven == {undefined, S_anim_mp4, S_token_png, S_a_b_mp4}

\* a member that is there only if its value is
Optional(key, value) ==
  IF value.t = "undefined" THEN <<>> ELSE <<Member(key, value)>>

\* The metadata callers pass.  The members that the schema requires and
\* linking never looks at (symbol, seller_fee_basis_points,
\* properties.creators) are left out of the model.
MetadataGiven ==
  {Obj(<<Member(S_name, Str(S_NFT))>> \o Optional(S_image, OptStr(image))
         \o Optional(S_animation_url, OptStr(animation_url))
         \o Optional(S_properties, properties)) :
     image \in ImagesGiven, animation_url \in AnimationURLsGiven,
     properties \in PropertiesGiven}

PrepareOpts ==
  [additionalAssetFiles : AdditionalAssetFiles,
   blockstore : {"undefined", "opts.blockstore"},
   validateSchema : {FALSE, TRUE},
   gatewayHost : {undefined, S_dweb_link}]

\* validateMetadata(m), as far as the members of the model go: image is a
\* string, properties an object, properties.files an array of objects with
\* the strings uri and type
validateMetadata(m) ==
  /\ Get(m, S_name).t = "string"
  /\ Get(m, S_image).t = "string"
  /\ Get(m, S_properties).t = "object"
  /\ Get(Get(m, S_properties), S_files).t = "array"
  /\ \A i \in 1..Len(Get(Get(m, S_properties), S_files).items) :
       LET f == Get(Get(m, S_properties), S_files).items[i]
       IN /\ Get(f, S_uri).t = "string"
          /\ Get(f, S_type).t = "string"
          /\ Get(f, S_cdn).t \in {"boolean", "undefined"}

\* a stand-in for the sha2-256 digest of a block, as a number
RECURSIVE DigestOf(_)
RECURSIVE DigestOfLinks(_)
DigestOfLinks(links) ==
  IF links = {} THEN 0
  ELSE LET l == CHOOSE x \in links : TRUE
       IN SumRange(l.Name, 1, Len(l.Name)) + 3 * DigestOf(l.Hash.digest)
            + DigestOfLinks(links \ {l})

DigestOf(block) ==
  IF block.type = "raw" THEN SumRange(block.data.of, 1, Len(block.data.of))
  ELSE 1 + DigestOfLinks(block.links)

\* cid.toString(), of the root of a directory
RootCIDString(cid) == CIDToString(CarCid(DigestOf(cid.digest)))

\* the blocks of the stores after encodeDirectory has written to store
StoredIn(blocks, store, encoded) ==
  [blocks EXCEPT ![store] = PutAll(@, encoded.blocks)]

\* prepareMetaplexNFT(metadata, imageFile, opts) up to its first await:
\* ensureValidMetadata throws, or NFTStorage.encodeDirectory is called with
\* the image and the additional files
prepareMetaplexNFTCall(op, args, metadata, image, opts) ==
  LET store == IF opts.blockstore = "undefined" THEN "new Blockstore()"
               ELSE opts.blockstore
      rec == [IdlePrep EXCEPT !.op = op, !.metadata = metadata,
                              !.imageFile = image, !.opts = opts,
                              !.args = args, !.blockstore = store,
                              !.blocks = [s \in Blockstores |->
                                 IF s = "opts.blockstore"
                                   THEN Put(<<>>, CID(EarlierBlock),
                                            EarlierBlock)
                                   ELSE <<>>]]
  IN IF opts.validateSchema /\ ~validateMetadata(metadata)
       THEN [rec EXCEPT !.pc = "failed", !.error = "ValidationError"]
       ELSE [rec EXCEPT !.pc = "encodeAssets"]

\* one call is followed: what a call does depends on its arguments only
prepareMetaplexNFTBegin(metadata, image, opts) ==
  /\ prep.pc = "idle"
  /\ prep' = prepareMetaplexNFTCall("prepareMetaplexNFT", IdlePrep.args,
                                    metadata, image, opts)
  /\ UNCHANGED <<auth, authError, issued, uploadVars, MAX_ENTRIES, nfts,
                 blockstore, calls, last, fin, finCount>>

\* [imageFile, ...additionalAssetFiles]
AssetFiles(rec) ==
  {rec.imageFile}
    \cup {rec.opts.additionalAssetFiles[i] :
            i \in 1..Len(rec.opts.additionalAssetFiles)}

\* imageFile.name || 'image.png'
ImageFilename(image) ==
  IF Falsy(image.name) THEN S_image_png ELSE image.name

\* additionalAssetFiles.map((f) => f.name)
AdditionalFilenames(files) == [i \in 1..Len(files) |-> files[i].name]

\* a variant that packages the metadata as it was given
MetadataFileOfGiven(rec, linkedMetadata) ==
  File(S_metadata_json, TextEncoderEncode(JSONStringify(rec.metadata)))

\* new File([JSON.stringify(linkedMetadata)], 'metadata.json')
MetadataFile(rec, linkedMetadata) ==
  File(S_metadata_json, TextEncoderEncode(JSONStringify(linkedMetadata)))

\* the first encodeDirectory is done: the assets are in the store; the
\* metadata is linked against their root and the second encodeDirectory is
\* called with the metadata file
prepareMetaplexNFTLink ==
  LET encoded == encodeDirectory(AssetFiles(prep))
      linkedMetadata ==
        replaceFileRefsWithIPFSLinks(
          prep.metadata, ImageFilename(prep.imageFile),
          AdditionalFilenames(prep.opts.additionalAssetFiles),
          RootCIDString(encoded.cid), prep.opts.gatewayHost)
  IN /\ prep.pc = "encodeAssets"
     /\ prep' = [prep EXCEPT
          !.pc = "encodeMetadata",
          !.encodedAssets = encoded,
          !.blocks = StoredIn(@, prep.blockstore, encoded),
          !.linkedMetadata = linkedMetadata]
     /\ UNCHANGED <<auth, authError, issued, uploadVars, MAX_ENTRIES, nfts,
                    blockstore, calls, last, fin, finCount>>

\* the second encodeDirectory is done: the metadata is in the store, and
\* the PackagedNFT is returned
prepareMetaplexNFTReturn ==
  LET encoded ==
        encodeDirectory({MetadataFile(prep, prep.linkedMetadata)})
  IN /\ prep.pc = "encodeMetadata"
     /\ prep' = [prep EXCEPT
          !.pc = "done",
          !.encodedMetadata = encoded,
          !.blocks = StoredIn(@, prep.blockstore, encoded),
          !.result =
             [metadata |-> prep.linkedMetadata,
              encodedMetadata |-> [cid |-> encoded.cid],
              encodedAssets |-> [cid |-> prep.encodedAssets.cid],
              metadataGatewayURL |->
                makeGatewayURL(RootCIDString(encoded.cid), S_metadata_json,
                               prep.opts.gatewayHost),
              metadataURI |->
                makeIPFSURI(RootCIDString(encoded.cid), S_metadata_json),
              blockstore |-> prep.blockstore]]
     /\ UNCHANGED <<auth, authError, issued, uploadVars, MAX_ENTRIES, nfts,
                    blockstore, calls, last, fin, finCount>>


(***************************************************************************)
(* loadNFTFromFilesystem: the paths of node's path module (POSIX) and the  *)
(* files on disk.                                                          *)
(***************************************************************************)
\* "/work"
Cwd == <<47, 119, 111, 114, 107>>
\* "nfts/token.json"
PathTokenJSON == <<110, 102, 116, 115, 47, 116, 111, 107, 101, 110, 46, 106,
  115, 111, 110>>
\* "/work/nfts/listed.json"
PathListedJSON == <<47, 119, 111, 114, 107, 47, 110, 102, 116, 115, 47, 108,
  105, 115, 116, 101, 100, 46, 106, 115, 111, 110>>
\* "/work/nfts/invalid.json"
PathInvalidJSON == <<47, 119, 111, 114, 107, 47, 110, 102, 116, 115, 47,
  105, 110, 118, 97, 108, 105, 100, 46, 106, 115, 111, 110>>
\* "/work/nfts/gone.json"
PathGoneJSON == <<47, 119, 111, 114, 107, 47, 110, 102, 116, 115, 47, 103,
  111, 110, 101, 46, 106, 115, 111, 110>>
\* "/work/nfts/token.png"
PathTokenPNG == <<47, 119, 111, 114, 107, 47, 110, 102, 116, 115, 47, 116,
  111, 107, 101, 110, 46, 112, 110, 103>>
\* "/work/nfts/anim.mp4"
PathAnimMP4 == <<47, 119, 111, 114, 107, 47, 110, 102, 116, 115, 47, 97,
  110, 105, 109, 46, 109, 112, 52>>
\* "nfts/token.png"
PathTokenPNGGiven == <<110, 102, 116, 115, 47, 116, 111, 107, 101, 110, 46,
  112, 110, 103>>
\* ".png"
S_dot_png == <<46, 112, 110, 103>>

IsAbsolute(p) == p # <<>> /\ p[1] = 47

\* the segments of a path without "", "." and "..": ".." takes the segment
\* before it away
RECURSIVE NormalizeSegments(_, _, _)
NormalizeSegments(dir, segs, i) ==
  IF i > Len(segs) THEN dir
  ELSE NormalizeSegments(
         IF segs[i] = <<>> \/ segs[i] = S_dot THEN dir
         ELSE IF segs[i] = S_dot_dot
           THEN (IF dir = <<>> THEN <<>> ELSE SubSeq(dir, 1, Len(dir) - 1))
         ELSE Append(dir, segs[i]),
         segs, i + 1)

\* the segments of the absolute path that p names in the working directory
AbsoluteSegments(p) ==
  NormalizeSegments(<<>>,
                    Split(IF IsAbsolute(p) THEN p ELSE Cwd \o <<47>> \o p, 47),
                    1)

\* path.resolve(from, to)
pathResolve(from, to) ==
  LET segs == AbsoluteSegments(IF IsAbsolute(to) THEN to
                               ELSE from \o <<47>> \o to)
  IN IF segs = <<>> THEN <<47>> ELSE SerializePath(segs)

\* path.dirname(p), of a path that ends with no "/"
pathDirname(p) ==
  IF LastSlash(p) = 0 THEN S_dot
  ELSE IF LastSlash(p) = 1 THEN <<47>>
  ELSE SubSeq(p, 1, LastSlash(p) - 1)

\* path.relative(from, to): ".." for every segment of from after what the
\* two have in common, then the segments of to after it
pathRelative(from, to) ==
  LET f == AbsoluteSegments(from)
      g == AbsoluteSegments(to)
      same == {n \in 0..Len(f) :
                 n <= Len(g) /\ \A i \in 1..n : f[i] = g[i]}
      common == CHOOSE n \in same : \A m \in same : m <= n
      segs == [i \in 1..(Len(f) - common) |-> S_dot_dot]
                \o SubSeq(g, common + 1, Len(g))
      joined == SerializePath(segs)
  IN IF segs = <<>> THEN <<>> ELSE SubSeq(joined, 2, Len(joined))

\* The metadata files on disk, by what JSON.parse gives for their content:
\* nfts/token.json names no image and lists token.png, anim.mp4 and a file
\* that is not there; listed.json names token.png as image and lists it;
\* invalid.json has no properties.
MetadataOnDisk ==
  [p \in {pathResolve(Cwd, PathTokenJSON), PathListedJSON, PathInvalidJSON}
     |->
     IF p = PathListedJSON
       THEN Obj(<<Member(S_name, Str(S_NFT)),
                  Member(S_image, Str(S_token_png)),
                  Member(S_properties,
                         Obj(<<Member(S_files,
                                      Arr(<<FileEntry(S_token_png)>>))>>))>>)
     ELSE IF p = PathInvalidJSON
       THEN Obj(<<Member(S_name, Str(S_NFT)),
                  Member(S_image, Str(S_token_png))>>)
     ELSE Obj(<<Member(S_name, Str(S_NFT)),
                Member(S_image, Str(<<>>)),
                Member(S_properties,
                       Obj(<<Member(S_files,
                                    Arr(<<FileEntry(S_token_png),
                                          FileEntry(S_anim_mp4),
                                          FileEntry(S_other_png)>>))>>))>>)]

\* the asset files on disk, by their bytes
AssetsOnDisk ==
  [p \in {PathTokenPNG, PathAnimMP4} |->
     IF p = PathTokenPNG THEN <<1>> ELSE <<2>>]

\* fileExists(filepath)
fileExists(filepath) ==
  pathResolve(Cwd, filepath) \in DOMAIN MetadataOnDisk \cup DOMAIN AssetsOnDisk

\* fileFromPath(filepath, rootDir), of an asset file that is there
fileFromPath(filepath, rootDir) ==
  File(pathRelative(rootDir, filepath),
       AssetsOnDisk[pathResolve(Cwd, filepath)])

\* the paths that callers give
MetadataFilePaths ==
  {PathTokenJSON, PathListedJSON, PathInvalidJSON, PathGoneJSON}

ImageFilePaths == {undefined, PathTokenPNGGiven}

LoadOpts ==
  [blockstore : {"undefined"}, validateSchema : {FALSE, TRUE},
   gatewayHost : {undefined}]

\* the imageFilePath after lines 76-92: the one given, the one that
\* metadata.image names, or the one named as the metadata file
ImageFilePathFound(metadataFilePath, imageFilePath, metadata) ==
  LET parentDir == pathDirname(metadataFilePath)
      pathFromMetadata == pathResolve(parentDir, Get(metadata, S_image).s)
      pathFromMetadataFilename ==
        pathResolve(parentDir,
                    basename(metadataFilePath, S_dot_json) \o S_dot_png)
  IN IF ~Falsy(imageFilePath) THEN imageFilePath
     ELSE IF Truthy(Get(metadata, S_image)) /\ fileExists(pathFromMetadata)
       THEN pathFromMetadata
     ELSE IF fileExists(pathFromMetadataFilename)
       THEN pathFromMetadataFilename
     ELSE undefined

\* the Set additionalFilePaths after the loop of lines 105-110, in the
\* order of its insertions
RECURSIVE AdditionalFilePathsFrom(_, _, _, _)
AdditionalFilePathsFrom(files, i, parentDir, paths) ==
  IF i > Len(files) THEN paths
  ELSE LET filepath == pathResolve(parentDir, Get(files[i], S_uri).s)
       IN AdditionalFilePathsFrom(
            files, i + 1, parentDir,
            IF fileExists(filepath)
                 /\ \A k \in 1..Len(paths) : paths[k] # filepath
              THEN Append(paths, filepath)
              ELSE paths)

\* set.delete(value)
SetDelete(paths, value) == SelectSeq(paths, LAMBDA p : p # value)

\* additionalFilePaths after
\* additionalFilePaths.delete(path.basename(imageFilePath))
AdditionalFilePaths(metadata, parentDir, imageFilePath) ==
  SetDelete(AdditionalFilePathsFrom(OriginalFiles(metadata), 1, parentDir,
                                    <<>>),
            basename(imageFilePath, <<>>))

\* loadNFTFromFilesystem(metadataFilePath, imageFilePath, opts) up to its
\* await of fs.promises.readFile
loadNFTFromFilesystemBegin(metadataFilePath, imageFilePath, opts) ==
  /\ prep.pc = "idle"
  /\ prep' = [IdlePrep EXCEPT
       !.op = "loadNFTFromFilesystem", !.pc = "readFile",
       !.args = [metadataFilePath |-> metadataFilePath,
                 imageFilePath |-> imageFilePath],
       !.opts = [NoPrepareOpts EXCEPT
                   !.blockstore = opts.blockstore,
                   !.validateSchema = opts.validateSchema,
                   !.gatewayHost = opts.gatewayHost]]
  /\ UNCHANGED <<auth, authError, issued, uploadVars, MAX_ENTRIES, nfts,
                 blockstore, calls, last, fin, finCount>>

\* the metadata file is read, or is not there.  The disk does not change,
\* so the awaits of fileExists and fileFromPath are taken in this one step,
\* up to the call of prepareMetaplexNFT and its first await.
loadNFTFromFilesystemRead ==
  LET metadataFilePath == prep.args.metadataFilePath
      there == pathResolve(Cwd, metadataFilePath) \in DOMAIN MetadataOnDisk
      metadata == MetadataOnDisk[pathResolve(Cwd, metadataFilePath)]
      parentDir == pathDirname(metadataFilePath)
      imageFilePath ==
        ImageFilePathFound(metadataFilePath, prep.args.imageFilePath,
                           metadata)
      additionalAssetFiles ==
        LET paths == AdditionalFilePaths(metadata, parentDir, imageFilePath)
        IN [i \in 1..Len(paths) |-> fileFromPath(paths[i], parentDir)]
      failed(error) == [prep EXCEPT !.pc = "failed", !.error = error]
  IN /\ prep.pc = "readFile"
     /\ prep' =
          IF ~there THEN failed("ENOENT")
          ELSE IF prep.opts.validateSchema /\ ~validateMetadata(metadata)
            THEN [failed("ValidationError") EXCEPT !.metadata = metadata]
          ELSE IF Falsy(prep.args.imageFilePath)
                    /\ Get(metadata, S_image).t # "string"
            THEN [failed("TypeError") EXCEPT !.metadata = metadata]
          ELSE IF imageFilePath = undefined
            THEN [failed("unable to determine path to image.")
                    EXCEPT !.metadata = metadata]
          ELSE prepareMetaplexNFTCall(
                 "loadNFTFromFilesystem",
                 [metadataFilePath |-> metadataFilePath,
                  imageFilePath |-> imageFilePath],
                 metadata, fileFromPath(imageFilePath, parentDir),
                 [prep.opts EXCEPT
                    !.additionalAssetFiles = additionalAssetFiles])
     /\ UNCHANGED <<auth, authError, issued, uploadVars, MAX_ENTRIES, nfts,
                    blockstore, calls, last, fin, finCount>>

NextPrepare ==
  \/ \E metadata \in MetadataGiven, image \in ImageFiles, opts \in PrepareOpts :
       prepareMetaplexNFTBegin(metadata, image, opts)
  \/ prepareMetaplexNFTLink
  \/ prepareMetaplexNFTReturn

PrepareSpec == InitDefault /\ [][NextPrepare]_vars

(***************************************************************************)
(* Properties of linking and of prepareMetaplexNFT.                        *)
(***************************************************************************)
\* the call has linked its metadata
Linked == prep.pc \in {"encodeMetadata", "done"}

\* the arguments that the call links with
LinkImageFilename == ImageFilename(prep.imageFile)

LinkAdditionalFilenames == AdditionalFilenames(prep.opts.additionalAssetFiles)

LinkAssetRoot == RootCIDString(prep.encodedAssets.cid)

LinkGatewayHost ==
  IF Falsy(prep.opts.gatewayHost) THEN DEFAULT_GATEWAY_HOST
  ELSE prep.opts.gatewayHost

\* the gateway URL of the file name under the asset root:
\* <gateway host>/ipfs/<asset root>/<name>
GatewayURLOf(name) ==
  LinkGatewayHost \o S_ipfs_path \o LinkAssetRoot \o <<47>> \o name

\* the ipfs:// content URI of the file name: ipfs://<asset root>/<name>
ContentURIOf(name) == S_ipfs_scheme \o LinkAssetRoot \o <<47>> \o name

\* properties.files before and after linking
FilesBefore == OriginalFiles(prep.metadata)

FilesAfter == OriginalFiles(prep.linkedMetadata)

\* entry i of properties.files names the image file or an additional file
Matches(i) ==
  IsAssetRef(FilesBefore[i], LinkImageFilename, LinkAdditionalFilenames)

\* where entry i, or the first of the two entries in its place, comes out
PlaceOf(i) == i + Cardinality({j \in 1..(i - 1) : Matches(j)})

\* entry out is entry f but for its uri and its cdn flag
RewrittenAs(f, out, uri, cdn) ==
  /\ Keys(out) = Keys(f) \cup {S_uri, S_cdn}
  /\ Get(out, S_uri) = Str(uri)
  /\ Get(out, S_cdn) = Bool(cdn)
  /\ \A k \in Keys(f) \ {S_uri, S_cdn} : Get(out, k) = Get(f, k)

\* C22: every entry of properties.files that names the image file or an
\* additional file is replaced by two entries, first the gateway URL with
\* cdn = true, then the ipfs:// content URI with cdn = false, both with
\* the other fields of the entry; every other entry comes out unchanged and
\* in order, so the output has input length + number of matching entries
C22_TwoEntriesPerAssetRef ==
  Linked =>
    /\ Len(FilesAfter)
         = Len(FilesBefore)
             + Cardinality({i \in 1..Len(FilesBefore) : Matches(i)})
    /\ \A i \in 1..Len(FilesBefore) :
         IF Matches(i)
           THEN /\ RewrittenAs(FilesBefore[i], FilesAfter[PlaceOf(i)],
                               GatewayURLOf(Get(FilesBefore[i], S_uri).s),
                               TRUE)
                /\ RewrittenAs(FilesBefore[i], FilesAfter[PlaceOf(i) + 1],
                               ContentURIOf(Get(FilesBefore[i], S_uri).s),
                               FALSE)
           ELSE FilesAfter[PlaceOf(i)] = FilesBefore[i]

\* C23: linking sets image to the gateway URL of the image file's name
\* (image.png if the file has no name) under the asset root, whatever the
\* image of the input was
C23_ImageIsGatewayURL ==
  Linked =>
    Get(prep.linkedMetadata, S_image) = Str(GatewayURLOf(LinkImageFilename))

\* C24: linking sets animation_url to the gateway URL of that name under
\* the asset root if it is set and is the name of an additional file, and
\* leaves it as it was given in every other case
C24_AnimationURLIffAdditionalFile ==
  Linked =>
    LET given == Get(prep.metadata, S_animation_url)
        linked == Get(prep.linkedMetadata, S_animation_url)
    IN IF given.t = "string"
            /\ \E i \in 1..Len(LinkAdditionalFilenames) :
                 LinkAdditionalFilenames[i] = given.s
         THEN linked = Str(GatewayURLOf(given.s))
         ELSE linked = given

\* C25: linking the linked metadata again, with the same file names, asset
\* root and gateway host, gives the linked metadata
C25_LinkingTwiceIsLinkingOnce ==
  Linked =>
    replaceFileRefsWithIPFSLinks(prep.linkedMetadata, LinkImageFilename,
                                 LinkAdditionalFilenames, LinkAssetRoot,
                                 prep.opts.gatewayHost)
      = prep.linkedMetadata

\* the blocks that a store holds
BlocksIn(store) == {prep.blocks[store][c] : c \in DOMAIN prep.blocks[store]}

\* the directory of the image and the additional files, and its root
AssetDirectory ==
  makeDirectoryBlock(
    {createLink(f.name, CID(RawBlock(f.data))) : f \in AssetFiles(prep)})

\* the block of the file that holds JSON.stringify of the metadata m
MetadataBlock(m) ==
  RawBlock([kind |-> "bytes", of |-> TextEncoderEncode(JSONStringify(m))])

\* the directory that holds the metadata m as metadata.json
MetadataDirectory(m) ==
  makeDirectoryBlock({createLink(S_metadata_json, CID(MetadataBlock(m)))})

\* the store that the call is to write to, and the other one
StoreOfOpts ==
  IF prep.opts.blockstore = "undefined" THEN "new Blockstore()"
  ELSE "opts.blockstore"

\* the blocks of the stores before the call
BlocksBefore(store) ==
  IF store = "opts.blockstore" THEN {EarlierBlock} ELSE {}

\* C26: prepareMetaplexNFT packages the image and the additional files as
\* one directory whose root is the asset root, then links the metadata
\* against that root, then packages the linked metadata as the directory of
\* metadata.json whose root is the metadata root; it returns the linked
\* metadata and ipfs://<metadata root>/metadata.json, and every block is
\* written to the store of opts, or to a new one if opts has none
C26_AssetsThenLinkThenMetadata ==
  /\ prep.pc = "encodeAssets" =>
       \A s \in Blockstores : BlocksIn(s) = BlocksBefore(s)
  /\ prep.pc \in {"encodeMetadata", "done"} =>
       /\ prep.encodedAssets.cid = CID(AssetDirectory)
       /\ prep.linkedMetadata =
            replaceFileRefsWithIPFSLinks(
              prep.metadata, LinkImageFilename, LinkAdditionalFilenames,
              RootCIDString(CID(AssetDirectory)), prep.opts.gatewayHost)
       /\ {AssetDirectory} \cup {RawBlock(f.data) : f \in AssetFiles(prep)}
            \subseteq BlocksIn(StoreOfOpts)
  /\ prep.pc = "encodeMetadata" =>
       /\ MetadataDirectory(prep.linkedMetadata) \notin BlocksIn(StoreOfOpts)
       /\ prep.result = NoPackagedNFT
  /\ prep.pc = "done" =>
       /\ prep.result.encodedAssets.cid = CID(AssetDirectory)
       /\ prep.result.metadata = prep.linkedMetadata
       /\ prep.result.encodedMetadata.cid
            = CID(MetadataDirectory(prep.linkedMetadata))
       /\ prep.result.metadataURI
            = S_ipfs_scheme
                \o RootCIDString(CID(MetadataDirectory(prep.linkedMetadata)))
                \o <<47>> \o S_metadata_json
       /\ prep.result.blockstore = StoreOfOpts
       /\ BlocksIn(StoreOfOpts)
            = BlocksBefore(StoreOfOpts)
                \cup {AssetDirectory}
                \cup {RawBlock(f.data) : f \in AssetFiles(prep)}
                \cup {MetadataDirectory(prep.linkedMetadata),
                      MetadataBlock(prep.linkedMetadata)}
       /\ \A s \in Blockstores \ {StoreOfOpts} :
            BlocksIn(s) = BlocksBefore(s)

\* a call with additional files and the store of its caller has returned
\* metadata that linking has changed
C26_Witness ==
  /\ prep.pc = "done"
  /\ prep.opts.blockstore = "opts.blockstore"
  /\ Len(prep.opts.additionalAssetFiles) = 2
  /\ prep.result.metadata # prep.metadata
  /\ Len(FilesAfter) > Len(FilesBefore)

(***************************************************************************)
(* The other upload paths: storeBlob, storeDirectory and the upload of an  *)
(* NFT that prepareMetaplexNFT or loadNFTFromFilesystem has packaged.      *)
(***************************************************************************)
\* the root of an archive, as the CID of the uploads
CarCidOf(cid) == CarCid(DigestOf(cid.digest))

\* the static storeBlob and storeDirectory up to their await of
\* NFTStorage.encodeBlob or NFTStorage.encodeDirectory, which is to give cid;
\* client.storeDirectory calls the static method
storeBlobBegin(u, op, context, cid) ==
  /\ Free(u)
  /\ op \in {"storeBlob", "storeDirectory"}
  /\ init
  /\ uploads' = [uploads EXCEPT ![u] =
       [IdleUpload EXCEPT !.op = op, !.pc = "encoding", !.car = 1,
                          !.context = context, !.cid = cid]]
  /\ UNCHANGED <<auth, authError, issued, client, bundleState>>

\* client.storeBlob up to its await of NFTStorage.encodeBlob
clientStoreBlobBegin(u, cid) ==
  /\ Free(u)
  /\ client # NoClient
  /\ uploads' = [uploads EXCEPT ![u] =
       [IdleUpload EXCEPT !.op = "client.storeBlob", !.pc = "encoding",
                          !.car = 1, !.context = client, !.cid = cid]]
  /\ UNCHANGED <<auth, authError, issued, client, initVars, bundleState>>

\* the archive is encoded, and the static storeCar is called with it
storeBlobEncoded(u) ==
  /\ uploads[u].pc = "encoding"
  /\ init
  /\ uploads' = [uploads EXCEPT ![u] =
       storeCarCall(uploads[u], uploads[u].context, uploads[u].cid)]
  /\ UNCHANGED <<auth, authError, issued, client, bundleState>>

\* storePreparedNFT with the PackagedNFT that the call of prepareMetaplexNFT
\* or of loadNFTFromFilesystem has returned; with the latter it is what
\* storeNFTFromFilesystem goes on with
storePreparedNFTOfPrepared(u, context) ==
  /\ prep.pc = "done"
  /\ storePreparedNFTBegin(u, context,
       [encodedMetadata |-> [cid |-> CarCidOf(prep.result.encodedMetadata.cid)],
        encodedAssets |-> [cid |-> CarCidOf(prep.result.encodedAssets.cid)]])

\* the client of the callers
StoreClientOpts ==
  [mintingAgent |-> S_agent, agentVersion |-> undefined,
   solanaCluster |-> undefined, endpoint |-> undefined]

\* the metadata of listed.json and of invalid.json, given as objects
MetadataGivenToStore ==
  {MetadataOnDisk[PathListedJSON], MetadataOnDisk[PathInvalidJSON]}

NextStore ==
  \/ withSecretKey(ClientKey, StoreClientOpts)
  \/ \E metadataFilePath \in MetadataFilePaths,
        imageFilePath \in ImageFilePaths, opts \in LoadOpts :
       loadNFTFromFilesystemBegin(metadataFilePath, imageFilePath, opts)
  \/ loadNFTFromFilesystemRead
  \/ \E metadata \in MetadataGivenToStore, validateSchema \in BOOLEAN :
       prepareMetaplexNFTBegin(
         metadata, File(S_token_png, <<1>>),
         [NoPrepareOpts EXCEPT !.validateSchema = validateSchema])
  \/ prepareMetaplexNFTLink
  \/ prepareMetaplexNFTReturn
  \/ \E u \in Uploads, context \in Contexts :
       storePreparedNFTOfPrepared(u, context)
  \/ \E u \in Uploads, op \in {"storeBlob", "storeDirectory"},
        context \in Contexts :
       storeBlobBegin(u, op, context, CarCid(1))
  \/ \E u \in Uploads : clientStoreBlobBegin(u, CarCid(1))
  \/ \E u \in Uploads : storeBlobEncoded(u)
  \/ \E u \in Uploads, context \in Contexts :
       storeCarBegin(u, context, CarCid(2))
  \/ \E u \in Uploads : storeCarSigned(u)
  \/ \E u \in Uploads : NFTStorageStoreCarRequest(u)
  \/ \E u \in Uploads : NFTStorageStoreCarReturn(u, CIDToString(uploads[u].cid))
  \/ \E u \in Uploads : NFTStorageStoreCarThrow(u)

StoreSpec == InitDefault /\ [][NextStore]_vars

(***************************************************************************)
(* Properties of the upload of NFTs.                                       *)
(***************************************************************************)
\* the call has metadata that does not satisfy the schema
InvalidMetadataGiven ==
  /\ prep.pc \notin {"idle", "readFile"}
  /\ prep.metadata # Undef
  /\ ~validateMetadata(prep.metadata)

\* C27: metadata that does not satisfy the schema makes the call of
\* prepareMetaplexNFT or of loadNFTFromFilesystem, which storeNFTFromFilesystem
\* awaits, fail with a validation error, and no request of an upload of the
\* NFT is sent
C27_InvalidMetadataNeverUploaded ==
  InvalidMetadataGiven =>
    /\ prep.pc = "failed"
    /\ prep.error = "ValidationError"
    /\ \A u \in Uploads :
         uploads[u].op = "storePreparedNFT" => uploads[u].requests = {}

\* the arguments of loadNFTFromFilesystem have been read and it has called
\* prepareMetaplexNFT
Loaded ==
  /\ prep.op = "loadNFTFromFilesystem"
  /\ prep.pc \in {"encodeAssets", "encodeMetadata", "done"}

\* C30: the additional asset files that loadNFTFromFilesystem hands to
\* prepareMetaplexNFT never include the image file
C30_ImageNotAmongAdditionalFiles ==
  Loaded =>
    \A i \in 1..Len(prep.opts.additionalAssetFiles) :
      /\ prep.opts.additionalAssetFiles[i] # prep.imageFile
      /\ prep.opts.additionalAssetFiles[i].name # prep.imageFile.name

\* C28: on every upload path NFTStorage.auth is overridden before
\* NFTStorage.storeCar is called, so every request carries the header
\* x-web3auth: Metaplex <token> with the token of its archive; the override
\* is installed at most once, and the flag never goes back to false
C28_OverrideBeforeEveryUpload ==
  /\ [](\A u \in Uploads :
          LET rec == uploads[u]
          IN /\ rec.pc = "uploading" =>
                  initialized /\ NFTStorage_auth.overridden
             /\ \A r \in rec.requests :
                  /\ r.headers.name = S_x_web3auth
                  /\ r.headers.value = S_Metaplex \o rec.tokens[r.car])
  /\ [](NFTStorage_auth.installs <= 1)
  /\ [][initialized => initialized']_vars

\* a call of client.storeBlob, which calls init() only in storeCar, has sent
\* a request
C28_Witness ==
  \E u \in Uploads :
    /\ uploads[u].op = "client.storeBlob"
    /\ uploads[u].requests # {}
    /\ NFTStorage_auth.installs = 1

\* C29: storePreparedNFT stores the metadata archive first and begins with
\* the asset archive only when the metadata archive has been stored; it
\* returns only when both have been stored; when the upload of the metadata
\* archive fails there is no upload of the asset archive, and when that of
\* the asset archive fails the call fails with the metadata archive stored
C29_MetadataThenAssets ==
  /\ [](\A u \in Uploads :
          LET rec == uploads[u]
          IN rec.op = "storePreparedNFT" =>
               /\ rec.car \in {1, 2}
               /\ rec.cid = IF rec.car = 1 THEN rec.nft.encodedMetadata.cid
                            ELSE rec.nft.encodedAssets.cid
               /\ Len(rec.results) = IF rec.pc = "done" THEN 2 ELSE rec.car - 1
               /\ \A r \in rec.requests : r.car <= rec.car
               /\ rec.pc = "done" => rec.car = 2 /\ rec.error = "none"
               /\ rec.pc = "failed" => rec.error # "none")
  /\ [][\A u \in Uploads :
          uploads[u].pc = "failed" => uploads'[u].pc # "signing"
                                        \/ uploads'[u].car = 1]_vars

\* the upload of the asset archive has failed after requests of both
\* archives, with the metadata archive stored
C29_Witness ==
  \E u \in Uploads :
    /\ uploads[u].op = "storePreparedNFT"
    /\ uploads[u].pc = "failed"
    /\ uploads[u].car = 2
    /\ Len(uploads[u].results) = 1
    /\ \E r \in uploads[u].requests : r.car = 2

====
